---- MODULE Spec2Model ----
(***************************************************************************)
(* A model of minswap-py's caching layer:                                  *)
(*   - BlockfrostBackend, the process-wide call budget governor            *)
(*     (src/minswap/utils.py),                                             *)
(*   - _cache_timestamp_data, the monthly partitioned store                *)
(*     (src/minswap/utils.py),                                             *)
(*   - cache_transactions, the paged fetch pipeline                        *)
(*     (src/minswap/transactions.py).                                      *)
(*   - cache_utxos, the per-transaction fetch pipeline                     *)
(*     (src/minswap/transactions.py).                                      *)
(* Four specifications share the variables: SpecGov (threads calling       *)
(* api()), SpecFlush (a call of _cache_timestamp_data on the empty cache   *)
(* path and a second call on the store the first one left, file operation *)
(* by file operation), SpecPipe (runs of cache_transactions for one pool)  *)
(* and SpecUtxo (runs of cache_utxos for one pool).                        *)
(***************************************************************************)
EXTENDS Integers, Sequences, FiniteSets, TLC

VARIABLES
    \* ---- BlockfrostBackend class attributes and the module's call_lock
    total_calls,        \* BlockfrostBackend.total_calls
    num_limit_calls,    \* BlockfrostBackend.num_limit_calls
    last_call,          \* BlockfrostBackend.last_call
    max_total_calls,    \* BlockfrostBackend.max_total_calls (MAX_CALLS)
    call_lock,          \* holder of call_lock, or NoThread
    clock,              \* time.time(), in seconds
    gpc,                \* per thread: position inside api()/_limiter()
    gtmp,               \* per thread: value loaded by a read-modify-write
    gnow,               \* per thread: the local `now` of _limiter
    ordinal,            \* per thread: total_calls right after its increment
    seen,               \* history: the call that runs with no other thread in api()
    started,            \* history: number of api() calls begun
    granted,            \* history: calls that returned the API handle
    raised,             \* history: calls that raised BlockfrostCallLimit
    resets,             \* history: number of reset_total_calls() calls
    \* ---- one cache path on disk
    store,              \* partition name YYYYMM -> the file YYYYMM.arrow
    temp,               \* partition name YYYYMM -> the file YYYYMM_temp.arrow
    \* ---- one call of _cache_timestamp_data
    fpc,                \* position inside _cache_timestamp_data
    data,               \* its argument `data`
    hash_filter,        \* its argument `hash_filter`
    frames,             \* `data` is a list of pandas.DataFrame, one per record
    path,               \* partition name of `path`
    cache_df,           \* rows read from `path` (pandas.read_feather)
    to_write,           \* rows handed to to_feather
    returned,           \* the return value data[index:]
    phase,              \* "empty", then "built" by a first call, then
                        \* "tested" by a second call on the store it left
    repeat,             \* history: this call repeats the first call's data
    snap,               \* history: the store when the repeated call began
    crash_at,           \* history: where the process stopped, or "none"
    \* ---- the remote listing and one pool's cache_transactions
    remote_len,         \* records the remote listing holds (append-only)
    ppc,                \* position inside cache_transactions
    max_calls,          \* its argument `max_calls`
    page,               \* `page`
    call_batch,         \* `call_batch`
    num_calls,          \* `num_calls`
    done,               \* `done`
    transactions,       \* the buffer `transactions`
    results,            \* the round's futures, in page order
    runs,               \* history: calls of cache_transactions begun
    rounds,             \* history: rounds dispatched by this run
    requests,           \* history: remote requests executed by this run
    start_page,         \* history: `page` as planned when the run began
    pages,              \* history: the pages handed to executor.map, in order
    completed,          \* history: the round's requests in completion order
    handed,             \* history: hashes this run put into a flush's df
    \* ---- one asset's history cache and assets.cache_history, which has
    \* ---- its own page, call_batch, num_calls, done and transactions
    history,            \* the file history.arrow of the asset's cache path
    cache_len,          \* len(cache), of the cache opened when the run began
    \* ---- the save_timestamp wrapper and the default argument
    marker,             \* the TIMESTAMP file of the cache path
    start_time,         \* history: time.time() when the wrapper was entered
    defaulted,          \* history: the run was called without max_calls
    \* ---- one pool's cache_utxos
    ref_cache,          \* rows of the pool's transaction cache on disk
    progress,           \* its argument `progress`
    u_cache,            \* cache_utxos' `cache`: the references still to fetch
    last_index,         \* `last_index`
    tx_utxos,           \* the buffer `tx_utxos`
    \* ---- one caller of _get_cache on the same cache path
    rpc,                \* its position
    reader_df,          \* its `df`: None, the files of the dataset, or an error
    \* ---- the asset info cache of one asset
    chain_info,         \* what api().asset(asset) returns at the moment
    asset_file,         \* asset.json of the asset's cache path
    apc,                \* position of the caller
    entry,              \* the public function it called
    unit,               \* asset_ticker's argument
    update_cache,       \* get_asset_info's argument
    asset_calls,        \* history: api().asset calls made by this invocation
    had_file,           \* history: asset.json existed when it was entered
    info,               \* what get_asset_info / update_asset_info returned
    ticker,             \* what asset_ticker returned
    last_written,       \* history: the identity last written to asset.json
    lookups,            \* history: invocations begun
    chain_changes       \* history: changes of chain_info

govVars == << total_calls, num_limit_calls, last_call, max_total_calls,
              call_lock, clock, gpc, gtmp, gnow, ordinal, seen, started,
              granted, raised, resets >>

diskVars == << store, temp >>

flushVars == << fpc, data, hash_filter, frames, path, cache_df, to_write, returned,
                phase, repeat, snap, crash_at >>

pipeVars == << remote_len, ppc, max_calls, page, call_batch, num_calls, done,
               transactions, results, runs, rounds, requests, start_page, pages,
               completed, handed, history, cache_len >>

runVars == << marker, start_time, defaulted >>

utxoVars == << ref_cache, progress, u_cache, last_index, tx_utxos >>

readVars == << rpc, reader_df >>

assetVars == << chain_info, asset_file, apc, entry, unit, update_cache,
                asset_calls, had_file, info, ticker, last_written, lookups,
                chain_changes >>

vars == << govVars, diskVars, flushVars, pipeVars, runVars, utxoVars, readVars,
           assetVars >>

\* What a step of one component leaves alone.
GovOnly == UNCHANGED << diskVars, flushVars, pipeVars, runVars, utxoVars, readVars,
                        assetVars >>
FlushOnly == UNCHANGED << govVars, pipeVars, runVars, utxoVars, readVars, assetVars >>
ReadOnly == UNCHANGED << govVars, diskVars, flushVars, pipeVars, runVars, utxoVars,
                         assetVars >>
AssetOnly == UNCHANGED << num_limit_calls, last_call, max_total_calls, call_lock,
                          clock, gpc, gtmp, gnow, ordinal, seen, started, granted,
                          raised, resets, diskVars, flushVars, pipeVars,
                          start_time, defaulted, utxoVars, readVars >>
BeginOnly == UNCHANGED << num_limit_calls, last_call, max_total_calls, call_lock,
                          clock, gpc, gtmp, gnow, ordinal, seen, started, granted,
                          raised, resets, temp, flushVars, utxoVars, readVars,
                          assetVars, history, cache_len >>
PipeOnly == BeginOnly /\ UNCHANGED << runVars, start_page >>
StepOnly == PipeOnly /\ UNCHANGED pages
UtxoBeginOnly == UNCHANGED << num_limit_calls, last_call, max_total_calls,
                              call_lock, clock, gpc, gtmp, gnow, ordinal, seen,
                              started, granted, raised, resets, temp, flushVars,
                              remote_len, page, call_batch, done, transactions,
                              rounds, start_page, pages, completed, handed,
                              history, cache_len, readVars, assetVars >>
UtxoOnly == UtxoBeginOnly /\ UNCHANGED runVars

(***************************************************************************)
(* Bounds of the model.                                                    *)
(***************************************************************************)
NumThreads == 2          \* threads calling api() concurrently
MaxCalls == 3            \* api() calls begun in one behaviour
MaxQuota == 2            \* MAX_CALLS is drawn from 0..MaxQuota
MaxClock == 1            \* seconds that may pass outside a backoff sleep
MaxResets == 1           \* reset_total_calls() calls in one behaviour
BurstLimit == 2          \* stands for max_limit_calls (500 in the source)
NumRec == 5              \* records of the record universe
TicksPerMonth == 2       \* distinct block_time values inside one month
PageSize == 2            \* stands for count=100, the records of a full page
CpuCount == 2            \* cpu_count()
MaxLookups == 3          \* asset info and ticker lookups in one behaviour
MaxChainChanges == 1     \* changes of the asset's chain info in one behaviour
MaxCallsArg == 3         \* max_calls is drawn from 0..MaxCallsArg
MaxRuns == 2             \* cache_transactions calls in one behaviour

Threads == 1..NumThreads
NoThread == 0

(***************************************************************************)
(* BlockfrostBackend                                                       *)
(***************************************************************************)
max_limit_calls == BurstLimit
backoff_time == 10
refill_rate == 10

Min(a, b) == IF a <= b THEN a ELSE b

\* remaining_calls(): max_total_calls - total_calls
remaining_calls == max_total_calls - total_calls

QuotaReachedLate(total) == total > max_total_calls + 1
QuotaReachedOnce(total) == total = max_total_calls
\* The quota test of _limiter, on the already incremented counter.
QuotaReached(total) == total >= max_total_calls

\* max(0, num_limit_calls - (now - last_call) * 10)
DecayedUnclamped(n, now, last) == n - (now - last) * refill_rate
Decayed(n, now, last) ==
    IF n - (now - last) * refill_rate >= 0 THEN n - (now - last) * refill_rate ELSE 0

\* The class body of BlockfrostBackend, with MAX_CALLS = quota.
\* No call runs alone.
NotInside == [inside |-> FALSE, thread |-> NoThread, w |-> 0]

GovBoot(quota) ==
    /\ total_calls = 0
    /\ num_limit_calls = 0
    /\ last_call = 0
    /\ max_total_calls = quota
    /\ call_lock = NoThread
    /\ clock = 0
    /\ gpc = [t \in Threads |-> "idle"]
    /\ gtmp = [t \in Threads |-> 0]
    /\ gnow = [t \in Threads |-> 0]
    /\ ordinal = [t \in Threads |-> 0]
    /\ seen = NotInside
    /\ started = 0
    /\ granted = 0
    /\ raised = 0
    /\ resets = 0

\* api(): the caller enters _limiter and waits for call_lock.
ApiCall(t) ==
    /\ gpc[t] = "idle"
    /\ started < MaxCalls
    /\ gpc' = [gpc EXCEPT ![t] = "wait_lock"]
    /\ started' = started + 1
    /\ seen' = NotInside
    /\ UNCHANGED << total_calls, num_limit_calls, last_call, max_total_calls,
                    call_lock, clock, gtmp, gnow, ordinal, granted, raised,
                    resets >>
    /\ GovOnly

\* `with call_lock:` entered; the load half of `cls.num_limit_calls += 1`.
LockAndLoad(t) ==
    /\ gpc[t] = "wait_lock"
    /\ call_lock = NoThread
    /\ call_lock' = t
    /\ gtmp' = [gtmp EXCEPT ![t] = num_limit_calls]
    /\ gpc' = [gpc EXCEPT ![t] = "locked"]
    /\ seen' = IF \A u \in Threads \ {t} : gpc[u] = "idle"
               THEN [inside |-> TRUE, thread |-> t, w |-> num_limit_calls]
               ELSE NotInside
    /\ UNCHANGED << total_calls, num_limit_calls, last_call, max_total_calls,
                    clock, gnow, ordinal, started, granted, raised,
                    resets >>
    /\ GovOnly

\* The store half of `cls.num_limit_calls += 1`, and `cls.total_calls += 1`
\* (total_calls is only written by the lock holder and by reset_total_calls).
Increment(t) ==
    /\ gpc[t] = "locked"
    /\ call_lock = t
    /\ num_limit_calls' = gtmp[t] + 1
    /\ total_calls' = total_calls + 1
    /\ ordinal' = [ordinal EXCEPT ![t] = total_calls + 1]
    /\ gpc' = [gpc EXCEPT ![t] = "check"]
    /\ UNCHANGED << seen, last_call, max_total_calls, call_lock, clock, gtmp, gnow,
                    started, granted, raised, resets >>
    /\ GovOnly

RaiseLimitKeepsLock(t) ==
    /\ gpc[t] = "check"
    /\ QuotaReached(total_calls)
    /\ raised' = raised + 1
    /\ gpc' = [gpc EXCEPT ![t] = "raised"]
    /\ UNCHANGED << total_calls, num_limit_calls, last_call, max_total_calls,
                    call_lock, clock, gtmp, gnow, ordinal, seen, started, granted,
                    resets >>
    /\ GovOnly

\* `if cls.total_calls >= cls.max_total_calls: raise BlockfrostCallLimit`;
\* the exception leaves the `with` block, which releases call_lock.
RaiseLimit(t) ==
    /\ gpc[t] = "check"
    /\ QuotaReached(total_calls)
    /\ call_lock' = NoThread
    /\ raised' = raised + 1
    /\ gpc' = [gpc EXCEPT ![t] = "raised"]
    /\ UNCHANGED << total_calls, num_limit_calls, last_call, max_total_calls,
                    clock, gtmp, gnow, ordinal, seen, started, granted,
                    resets >>
    /\ GovOnly

\* `elif cls.num_limit_calls >= cls.max_limit_calls: time.sleep(backoff_time)`
\* inside the `with` block: the thread goes to sleep and keeps call_lock.
Backoff(t) ==
    /\ gpc[t] = "check"
    /\ ~QuotaReached(total_calls)
    /\ num_limit_calls >= max_limit_calls
    /\ gpc' = [gpc EXCEPT ![t] = "sleeping"]
    /\ UNCHANGED << total_calls, num_limit_calls, last_call, max_total_calls,
                    call_lock, clock, gtmp, gnow, ordinal, seen, started, granted,
                    raised, resets >>
    /\ GovOnly

\* time.sleep returns after backoff_time seconds; the `with` block ends and
\* releases call_lock.
WakeUp(t) ==
    /\ gpc[t] = "sleeping"
    /\ call_lock = t
    /\ clock' = clock + backoff_time
    /\ call_lock' = NoThread
    /\ gpc' = [gpc EXCEPT ![t] = "decay"]
    /\ UNCHANGED << total_calls, num_limit_calls, last_call, max_total_calls,
                    gtmp, gnow, ordinal, seen, started, granted, raised,
                    resets >>
    /\ GovOnly

\* Neither branch taken: the `with` block ends and releases call_lock.
Unlock(t) ==
    /\ gpc[t] = "check"
    /\ ~QuotaReached(total_calls)
    /\ num_limit_calls < max_limit_calls
    /\ call_lock' = NoThread
    /\ gpc' = [gpc EXCEPT ![t] = "decay"]
    /\ UNCHANGED << total_calls, num_limit_calls, last_call, max_total_calls,
                    clock, gtmp, gnow, ordinal, seen, started, granted, raised,
                    resets >>
    /\ GovOnly

\* After the `with` block: `now = time.time()` and the load half of
\* `cls.num_limit_calls = max(0, cls.num_limit_calls - (now - cls.last_call) * 10)`.
DecayLoad(t) ==
    /\ gpc[t] = "decay"
    /\ gnow' = [gnow EXCEPT ![t] = clock]
    /\ gtmp' = [gtmp EXCEPT ![t] = Decayed(num_limit_calls, clock, last_call)]
    /\ gpc' = [gpc EXCEPT ![t] = "decay_store"]
    /\ UNCHANGED << total_calls, num_limit_calls, last_call, max_total_calls,
                    call_lock, clock, ordinal, seen, started, granted, raised,
                    resets >>
    /\ GovOnly

\* The store half, `cls.last_call = now`, and api() returns cls._api.
DecayStore(t) ==
    /\ gpc[t] = "decay_store"
    /\ num_limit_calls' = gtmp[t]
    /\ last_call' = gnow[t]
    /\ granted' = granted + 1
    /\ gpc' = [gpc EXCEPT ![t] = "idle"]
    /\ gtmp' = [gtmp EXCEPT ![t] = 0]
    /\ gnow' = [gnow EXCEPT ![t] = 0]
    /\ ordinal' = [ordinal EXCEPT ![t] = 0]
    /\ seen' = NotInside
    /\ UNCHANGED << total_calls, max_total_calls, call_lock, clock, started,
                    raised, resets >>
    /\ GovOnly

\* The caller has seen BlockfrostCallLimit and is free to call again.
AfterRaise(t) ==
    /\ gpc[t] = "raised"
    /\ gpc' = [gpc EXCEPT ![t] = "idle"]
    /\ gtmp' = [gtmp EXCEPT ![t] = 0]
    /\ ordinal' = [ordinal EXCEPT ![t] = 0]
    /\ seen' = NotInside
    /\ UNCHANGED << total_calls, num_limit_calls, last_call, max_total_calls,
                    call_lock, clock, gnow, started, granted, raised, resets >>
    /\ GovOnly

\* reset_total_calls(): cls.total_calls = 0, without call_lock.
ResetTotalCalls ==
    /\ resets < MaxResets
    /\ total_calls' = 0
    /\ resets' = resets + 1
    /\ UNCHANGED << num_limit_calls, last_call, max_total_calls, call_lock,
                    clock, gpc, gtmp, gnow, ordinal, seen, started, granted, raised >>
    /\ GovOnly

\* One second passes. The clock is read only by a thread that has left the
\* `with` block, so only the seconds that pass before such a read are kept.
Tick ==
    /\ clock < MaxClock
    /\ \E t \in Threads : gpc[t] = "decay"
    /\ clock' = clock + 1
    /\ UNCHANGED << total_calls, num_limit_calls, last_call, max_total_calls,
                    call_lock, gpc, gtmp, gnow, ordinal, seen, started, granted,
                    raised, resets >>
    /\ GovOnly

GovNext ==
    \/ \E t \in Threads : ApiCall(t)
    \/ \E t \in Threads : LockAndLoad(t)
    \/ \E t \in Threads : Increment(t)
    \/ \E t \in Threads : RaiseLimit(t)
    \/ \E t \in Threads : Backoff(t)
    \/ \E t \in Threads : WakeUp(t)
    \/ \E t \in Threads : Unlock(t)
    \/ \E t \in Threads : DecayLoad(t)
    \/ \E t \in Threads : DecayStore(t)
    \/ \E t \in Threads : AfterRaise(t)
    \/ ResetTotalCalls
    \/ Tick

(***************************************************************************)
(* Records and the calendar.  block_time counts ticks from 1970-01; a      *)
(* month holds TicksPerMonth ticks.                                        *)
(***************************************************************************)
Stamp(m, s) == m * TicksPerMonth + s
\* datetime.month and datetime.year of a block_time
month(t) == ((t \div TicksPerMonth) % 12) + 1
year(t) == 1970 + ((t \div TicksPerMonth) \div 12)

\* The block_time of the records of the chain, by hash (the order of the
\* remote listing): three records of 1970-01, two of them in one block, one
\* of 1971-01, then records of the following months.
BlockTimes ==
    << Stamp(0, 0), Stamp(0, 1), Stamp(0, 1), Stamp(12, 0),
       Stamp(13, 0), Stamp(13, 1), Stamp(14, 0), Stamp(25, 0) >>

Record(h) == [hash |-> h, block_time |-> BlockTimes[h]]

RECURSIVE SeqOfHashes(_)
SeqOfHashes(S) ==
    IF S = {} THEN << >>
    ELSE LET h == CHOOSE x \in S : \A y \in S : x <= y
         IN  << Record(h) >> \o SeqOfHashes(S \ {h})

\* The non-empty lists a caller may pass: records in ascending order.
Batches == { SeqOfHashes(S) : S \in (SUBSET (1..NumRec)) \ {{}} }

Range(f) == { f[i] : i \in DOMAIN f }

\* Every ordering of the rows of `rows` that is ascending in block_time:
\* the results sort_values(by="block_time") may give (the sort is not stable).
RECURSIVE SortedFrom(_, _)
SortedFrom(rows, I) ==
    IF I = {} THEN { << >> }
    ELSE LET low == CHOOSE i \in I :
                       \A j \in I : rows[i].block_time <= rows[j].block_time
             first == { i \in I : rows[i].block_time = rows[low].block_time }
         IN  UNION { { << rows[i] >> \o rest : rest \in SortedFrom(rows, I \ {i}) }
                     : i \in first }

sort_values(rows) == SortedFrom(rows, DOMAIN rows)

IsSorted(rows) ==
    \A i \in 1..(Len(rows) - 1) : rows[i].block_time <= rows[i + 1].block_time

(***************************************************************************)
(* _cache_timestamp_data                                                   *)
(***************************************************************************)
\* `index`: len(data) when the first and the last record have the same
\* .month, else one past the first record whose .month differs from the
\* next record's.
FlushIndex(d) ==
    IF month(d[1].block_time) = month(d[Len(d)].block_time)
    THEN Len(d)
    ELSE CHOOSE k \in 1..(Len(d) - 1) :
            /\ month(d[k].block_time) # month(d[k + 1].block_time)
            /\ \A j \in 1..(k - 1) :
                  month(d[j].block_time) = month(d[j + 1].block_time)

\* data[:index] and data[index:]
Flushed(d) == SubSeq(d, 1, FlushIndex(d))
RemainderWhole(d) == d
Remainder(d) == SubSeq(d, FlushIndex(d) + 1, Len(d))

\* Lines 232 and 244: df holds data[:index] when `data` is a list of
\* models, and every frame of `data` when it is a list of DataFrames.
DataFrame(d, fr) == IF fr THEN d ELSE Flushed(d)

\* cache_name: f"{year}{month:02}" of df.block_time[0], as the number YYYYMM.
CacheName(d) == year(d[1].block_time) * 100 + month(d[1].block_time)

\* threshold = cache_df.block_time.values[-1]
NewerAlso(df, cdf) == SelectSeq(df, LAMBDA r : r.block_time >= cdf[Len(cdf)].block_time)
\* filtered = df[df.block_time > threshold]
Newer(df, cdf) == SelectSeq(df, LAMBDA r : r.block_time > cdf[Len(cdf)].block_time)

\* filtered = df[df.hash.isin(set(df.hash) - set(cache_df.hash))]
UnseenHashes(df, cdf) ==
    SelectSeq(df, LAMBDA r : r.hash \notin { c.hash : c \in Range(cdf) })

FilteredByTime(df, cdf, hf) == Newer(df, cdf)
Unfiltered(df, cdf, hf) == df
\* Lines 263-270: the merge filter of the two identity modes.
Filtered(df, cdf, hf) == IF hf THEN UnseenHashes(df, cdf) ELSE Newer(df, cdf)

\* The files of the cache path.
PartNames == { year(BlockTimes[h]) * 100 + month(BlockTimes[h]) : h \in 1..NumRec }
NoFile == [exists |-> FALSE, complete |-> FALSE, rows |-> << >>]
Partial == [exists |-> TRUE, complete |-> FALSE, rows |-> << >>]
File(rows) == [exists |-> TRUE, complete |-> TRUE, rows |-> rows]
EmptyDisk == [n \in PartNames |-> NoFile]

FlushBoot ==
    /\ fpc = "idle"
    /\ data = << >>
    /\ hash_filter = FALSE
    /\ frames = FALSE
    /\ path = 0
    /\ cache_df = << >>
    /\ to_write = << >>
    /\ returned = << >>
    /\ phase = "empty"
    /\ repeat = FALSE
    /\ snap = EmptyDisk
    /\ crash_at = "none"

PipeBoot ==
    /\ ppc = "idle"
    /\ max_calls = 0
    /\ page = 0
    /\ call_batch = 0
    /\ num_calls = 0
    /\ done = FALSE
    /\ transactions = << >>
    /\ results = << >>
    /\ runs = 0
    /\ rounds = 0
    /\ requests = 0
    /\ start_page = 0
    /\ pages = << >>
    /\ completed = << >>
    /\ handed = {}
    /\ history = NoFile
    /\ cache_len = 0

\* The TIMESTAMP file: absent, or holding str(time.time()).
NoMarker == [written |-> FALSE, time |-> 0]
skip_timestamp(t) == NoMarker
\* save_timestamp, lines 160-161: open(path / "TIMESTAMP", "w") and
\* fw.write(str(time.time())), before func is called.
save_timestamp(t) == [written |-> TRUE, time |-> t]

RunBoot ==
    /\ marker = NoMarker
    /\ start_time = 0
    /\ defaulted = FALSE

UtxoBoot ==
    /\ progress = FALSE
    /\ u_cache = << >>
    /\ last_index = 0
    /\ tx_utxos = << >>

\* What _get_cache hands back is None, a dataset over files (kind
\* "dataset"), or an exception (kind "error").
None == [kind |-> "None", files |-> << >>]

ReadBoot ==
    /\ rpc = "idle"
    /\ reader_df = [kind |-> "pending", files |-> << >>]

\* Python's None for an optional field, and a value that is present.
Null == [some |-> FALSE]
Some(x) == [some |-> TRUE, v |-> x]

\* The JSON api().asset(asset, return_type="json") returns.  asset_name:
\* None, the hex digits of "t", or the hex digits of the byte 0xff (no UTF-8
\* text); metadata: None, or the registry entry with its plain-text name and
\* with or without a ticker; onchain_metadata: None, without a symbol
\* attribute, with symbol None, or with a symbol.
RawInfos ==
    [asset_name : { Null, Some(<< "7", "4" >>), Some(<< "f", "f" >>) },
     metadata :
        { Null,
          Some([name |-> << "q", "A", "D", "A" >>, ticker |-> Null]),
          Some([name |-> << "q", "A", "D", "A" >>, ticker |-> Some(<< "T", "K", "N" >>)]) },
     onchain_metadata :
        { Null,
          Some([has_symbol |-> FALSE, symbol |-> Null]),
          Some([has_symbol |-> TRUE, symbol |-> Null]),
          Some([has_symbol |-> TRUE, symbol |-> Some(<< "S", "Y", "M" >>)]) }]

\* The asset is unknown to the chain (the request raises), or has an info.
NotFound == [found |-> FALSE]
ChainInfos == { NotFound } \cup { [found |-> TRUE, raw |-> raw] : raw \in RawInfos }

\* What asset_ticker ends in: a name, or an exception.
TickerValue(name) == [kind |-> "value", v |-> name]
TickerError(exc) == [kind |-> "error", exc |-> exc]

AssetBoot ==
    /\ asset_file = [exists |-> FALSE]
    /\ apc = "idle"
    /\ entry = "none"
    /\ unit = "none"
    /\ update_cache = FALSE
    /\ asset_calls = 0
    /\ had_file = FALSE
    /\ info = Null
    /\ ticker = [kind |-> "pending"]
    /\ last_written = Null
    /\ lookups = 0
    /\ chain_changes = 0

FlushInit ==
    /\ GovBoot(MaxQuota)
    /\ store = EmptyDisk
    /\ temp = EmptyDisk
    /\ FlushBoot
    /\ remote_len = NumRec
    /\ PipeBoot
    /\ RunBoot
    /\ ref_cache = << >>
    /\ UtxoBoot
    /\ ReadBoot
    /\ chain_info = NotFound
    /\ AssetBoot

OneMonth(d) ==
    \A i, j \in DOMAIN d :
        /\ month(d[i].block_time) = month(d[j].block_time)
        /\ year(d[i].block_time) = year(d[j].block_time)

\* Lines 221-262: the split, the output path, path.exists() and read_feather.
FlushBegin ==
    /\ fpc \in {"idle", "done"}
    /\ phase \in {"empty", "built"}
    /\ \E d \in Batches, hf \in BOOLEAN, fr \in BOOLEAN :
         /\ data' = d
         /\ hash_filter' = hf
         /\ frames' = fr
         /\ path' = CacheName(DataFrame(d, fr))
         /\ cache_df' = store[CacheName(DataFrame(d, fr))].rows
         /\ fpc' = IF store[CacheName(DataFrame(d, fr))].exists THEN "merge" ELSE "new"
         /\ repeat' = (phase = "built" /\ d = data /\ OneMonth(d))
         /\ snap' = IF phase = "built" /\ d = data /\ OneMonth(d) THEN store ELSE EmptyDisk
    /\ phase' = IF phase = "empty" THEN "built" ELSE "tested"
    /\ to_write' = << >>
    /\ returned' = << >>
    /\ UNCHANGED << store, temp, crash_at >>
    /\ FlushOnly

\* Lines 263-276: the merge filter, then concat and sort_values; nothing is
\* written when the filter keeps no row.
MergeFilter ==
    /\ fpc = "merge"
    /\ IF Len(Filtered(DataFrame(data, frames), cache_df, hash_filter)) > 0
       THEN /\ to_write' \in sort_values(
                   cache_df \o Filtered(DataFrame(data, frames), cache_df, hash_filter))
            /\ fpc' = "tmp_open"
       ELSE /\ to_write' = << >>
            /\ fpc' = "return"
    /\ UNCHANGED << store, temp, data, hash_filter, frames, path, cache_df, returned,
                    phase, repeat, snap, crash_at >>
    /\ FlushOnly

\* Line 276: to_feather(tmp_path) creates the temporary file ...
TmpOpen ==
    /\ fpc = "tmp_open"
    /\ temp' = [temp EXCEPT ![path] = Partial]
    /\ fpc' = "tmp_write"
    /\ UNCHANGED << store, data, hash_filter, frames, path, cache_df, to_write,
                    returned, phase, repeat, snap, crash_at >>
    /\ FlushOnly

\* ... and completes it.
TmpWritten ==
    /\ fpc = "tmp_write"
    /\ temp' = [temp EXCEPT ![path] = File(to_write)]
    /\ fpc' = "unlink"
    /\ UNCHANGED << store, data, hash_filter, frames, path, cache_df, to_write,
                    returned, phase, repeat, snap, crash_at >>
    /\ FlushOnly

\* Line 277: path.unlink()
Unlink ==
    /\ fpc = "unlink"
    /\ store' = [store EXCEPT ![path] = NoFile]
    /\ fpc' = "rename"
    /\ UNCHANGED << temp, data, hash_filter, frames, path, cache_df, to_write,
                    returned, phase, repeat, snap, crash_at >>
    /\ FlushOnly

\* Line 278: tmp_path.rename(path)
Rename ==
    /\ fpc = "rename"
    /\ store' = [store EXCEPT ![path] = temp[path]]
    /\ temp' = [temp EXCEPT ![path] = NoFile]
    /\ fpc' = "return"
    /\ UNCHANGED << data, hash_filter, frames, path, cache_df, to_write, returned,
                    phase, repeat, snap, crash_at >>
    /\ FlushOnly

\* Lines 281-284: no partition yet; sort_values, reset_index and
\* to_feather(path), which creates the partition file under its own name ...
NewOpen ==
    /\ fpc = "new"
    /\ to_write' \in sort_values(DataFrame(data, frames))
    /\ store' = [store EXCEPT ![path] = Partial]
    /\ fpc' = "new_write"
    /\ UNCHANGED << temp, data, hash_filter, frames, path, cache_df, returned,
                    phase, repeat, snap, crash_at >>
    /\ FlushOnly

\* ... and completes it.
NewWritten ==
    /\ fpc = "new_write"
    /\ store' = [store EXCEPT ![path] = File(to_write)]
    /\ fpc' = "return"
    /\ UNCHANGED << temp, data, hash_filter, frames, path, cache_df, to_write,
                    returned, phase, repeat, snap, crash_at >>
    /\ FlushOnly

\* Line 286: return data[index:]
FlushReturn ==
    /\ fpc = "return"
    /\ returned' = Remainder(data)
    /\ fpc' = "done"
    /\ UNCHANGED << store, temp, data, hash_filter, frames, path, cache_df, to_write,
                    phase, repeat, snap, crash_at >>
    /\ FlushOnly

\* The process stops, or a file operation raises, in the middle of a flush.
Crash ==
    /\ fpc \in {"merge", "tmp_open", "tmp_write", "unlink", "rename", "new",
                "new_write", "return"}
    /\ crash_at' = fpc
    /\ fpc' = "crashed"
    /\ UNCHANGED << store, temp, data, hash_filter, frames, path, cache_df, to_write,
                    returned, phase, repeat, snap >>
    /\ FlushOnly

(***************************************************************************)
(* File names, the glob and _get_cache                                     *)
(***************************************************************************)
DigitChars == << "0", "1", "2", "3", "4", "5", "6", "7", "8", "9" >>

\* str(n) of a natural number.
RECURSIVE Str(_)
Str(n) ==
    IF n < 10 THEN << DigitChars[n + 1] >>
    ELSE Str(n \div 10) \o << DigitChars[(n % 10) + 1] >>

RECURSIVE zfill(_, _)
zfill(s, width) == IF Len(s) >= width THEN s ELSE zfill(<< "0" >> \o s, width)

\* Lines 254-256: f"{year}" + f"{str(month).zfill(2)}.arrow" of partition n.
cache_name(n) ==
    Str(n \div 100) \o zfill(Str(n % 100), 2) \o << ".", "a", "r", "r", "o", "w" >>
\* Line 262: path.name.replace(".arrow", "_temp.arrow")
tmp_name(n) ==
    Str(n \div 100) \o zfill(Str(n % 100), 2)
      \o << "_", "t", "e", "m", "p", ".", "a", "r", "r", "o", "w" >>

\* The directory listing of the cache path: partitions, temporary files
\* and the TIMESTAMP file.
Listing(st, tmp, mk) ==
    { cache_name(n) : n \in { x \in PartNames : st[x].exists } }
      \cup { tmp_name(n) : n \in { x \in PartNames : tmp[x].exists } }
      \cup (IF mk.written THEN { << "T", "I", "M", "E", "S", "T", "A", "M", "P" >> }
            ELSE {})

\* CACHE_GLOB = "[0-9][0-9][0-9][0-9][0-9][0-9].arrow"
CACHE_GLOB ==
    << "[0-9]", "[0-9]", "[0-9]", "[0-9]", "[0-9]", "[0-9]", ".", "a", "r", "r", "o", "w" >>

\* fnmatch of one name against a pattern of literal characters and [0-9]
\* classes.
fnmatch(name, pat) ==
    /\ Len(name) = Len(pat)
    /\ \A i \in DOMAIN pat :
          IF pat[i] = "[0-9]" THEN name[i] \in Range(DigitChars)
          ELSE name[i] = pat[i]

glob(dir, pat) == { name \in dir : fnmatch(name, pat) }

\* sorted() of file names: character by character, the digits before the
\* other characters of these names.
RECURSIVE NameBefore(_, _)
NameBefore(a, b) ==
    LET rank(c) == IF c \in Range(DigitChars)
                   THEN CHOOSE i \in DOMAIN DigitChars : DigitChars[i] = c
                   ELSE Len(DigitChars) + 1
    IN  IF Len(a) = 0 THEN Len(b) > 0
        ELSE IF Len(b) = 0 THEN FALSE
        ELSE IF rank(Head(a)) # rank(Head(b)) THEN rank(Head(a)) < rank(Head(b))
        ELSE NameBefore(Tail(a), Tail(b))

RECURSIVE sorted(_)
sorted(S) ==
    IF S = {} THEN << >>
    ELSE LET first == CHOOSE a \in S : \A b \in S \ {a} : NameBefore(a, b)
         IN  << first >> \o sorted(S \ {first})

\* Line 185: vaex.open(cache_path.joinpath(glob)) lists the pattern again,
\* fails when nothing matches or when a matching file is no table (it was
\* not completely written), and else concatenates the files in sorted order.
vaex_open(st, tmp, mk, pat) ==
    LET found == glob(Listing(st, tmp, mk), pat)
        readable(name) ==
            /\ \A n \in PartNames : (cache_name(n) = name) => st[n].complete
            /\ \A n \in PartNames : (tmp_name(n) = name) => tmp[n].complete
            /\ \E n \in PartNames : name \in {cache_name(n), tmp_name(n)}
    IN  IF found = {} \/ \E name \in found : ~readable(name)
        THEN [kind |-> "error", files |-> << >>]
        ELSE [kind |-> "dataset", files |-> sorted(found)]

\* Line 184: `if len(list(cache_path.glob(glob))) > 0`, and line 187.
ReadCheck ==
    /\ rpc \in {"idle", "returned"}
    /\ IF glob(Listing(store, temp, marker), CACHE_GLOB) # {}
       THEN /\ rpc' = "found"
            /\ reader_df' = [kind |-> "pending", files |-> << >>]
       ELSE /\ rpc' = "returned"
            /\ reader_df' = None
    /\ ReadOnly

\* Line 185, then `return df`.
ReadOpen ==
    /\ rpc = "found"
    /\ reader_df' = vaex_open(store, temp, marker, CACHE_GLOB)
    /\ rpc' = "returned"
    /\ ReadOnly

\* assets._cache_txs(transactions, cache_path, use_hash): what it leaves on
\* disk and whether it raises.  The split and the file name are those of
\* _cache_timestamp_data; the hash branch ends in `raise Exception` once it
\* has found new hashes, before anything is written; the timestamp branch
\* and the first write do not sort.
cache_txs(st, d, use_hash) ==
    LET name == CacheName(d)
        df == Flushed(d)
        cdf == st[name].rows
    IN  IF st[name].exists
        THEN IF use_hash
             THEN IF Len(UnseenHashes(df, cdf)) > 0
                  THEN [raised |-> TRUE, disk |-> st]
                  ELSE [raised |-> FALSE, disk |-> st]
             ELSE IF Len(Newer(df, cdf)) > 0
                  THEN [raised |-> FALSE,
                        disk |-> [st EXCEPT ![name] = File(cdf \o Newer(df, cdf))]]
                  ELSE [raised |-> FALSE, disk |-> st]
        ELSE [raised |-> FALSE, disk |-> [st EXCEPT ![name] = File(df)]]

\* cache_history_transactions, line 864: one turn of its while loop,
\* `txs = _cache_txs(txs, cache_path, use_hash=True)`.
CacheTxs ==
    /\ fpc \in {"idle", "done", "txs_done"}
    /\ phase \in {"empty", "built"}
    /\ \E d \in Batches :
         /\ data' = d
         /\ path' = CacheName(d)
         /\ cache_df' = store[CacheName(d)].rows
         /\ store' = cache_txs(store, d, TRUE).disk
         /\ fpc' = IF cache_txs(store, d, TRUE).raised THEN "txs_raised" ELSE "txs_done"
         /\ returned' = IF cache_txs(store, d, TRUE).raised THEN << >> ELSE Remainder(d)
    /\ hash_filter' = TRUE
    /\ frames' = FALSE
    /\ phase' = IF phase = "empty" THEN "built" ELSE "tested"
    /\ repeat' = FALSE
    /\ snap' = EmptyDisk
    /\ to_write' = << >>
    /\ UNCHANGED << temp, crash_at >>
    /\ FlushOnly

FlushNext ==
    \/ FlushBegin
    \/ CacheTxs
    \/ MergeFilter
    \/ TmpOpen
    \/ TmpWritten
    \/ Unlink
    \/ Rename
    \/ NewOpen
    \/ NewWritten
    \/ FlushReturn
    \/ Crash

SpecFlush == FlushInit /\ [][FlushNext]_vars

\* A flush with a caller of _get_cache on the same cache path beside it.
ReadNext ==
    \/ FlushNext
    \/ ReadCheck
    \/ ReadOpen

SpecRead == FlushInit /\ [][ReadNext]_vars

(***************************************************************************)
(* The remote listing and the cache reader                                 *)
(***************************************************************************)
\* asset_transactions(nft, count=100, page=p, order="asc"): the records
\* (p - 1) * count + 1 .. p * count of the listing, as far as they exist.
RemotePage(p) ==
    SeqOfHashes({ h \in 1..remote_len : (p - 1) * PageSize < h /\ h <= p * PageSize })

RECURSIVE ConcatParts(_, _)
ConcatParts(st, N) ==
    IF N = {} THEN << >>
    ELSE LET n == CHOOSE x \in N : \A y \in N : x <= y
         IN  st[n].rows \o ConcatParts(st, N \ {n})

\* _get_cache: None when no file matches CACHE_GLOB, else the matching
\* files opened as one dataset in name order.
CacheExists(st) == \E n \in PartNames : st[n].exists
get_cache(st) == ConcatParts(st, { n \in PartNames : st[n].exists })

(***************************************************************************)
(* cache_transactions                                                      *)
(***************************************************************************)
\* timedelta(days=30), in ticks
thirty_days == TicksPerMonth
\* The values datetime.utcnow() takes when a run begins.
NowValues == { Stamp(1, 0), Stamp(14, 0), Stamp(26, 0) }

\* Python's //
FloorDiv(a, b) == IF b > 0 THEN a \div b ELSE (0 - a) \div (0 - b)

\* Lines 159-164: the rows of the last 30 days, or the whole cache when at
\* most one row is that recent.
RecentRows(cache, now) ==
    LET recent == SelectSeq(cache, LAMBDA r : r.block_time > now - thirty_days)
    IN  IF Len(recent) <= 1 THEN cache ELSE recent

\* Lines 166-185: the pages per round estimated from the cached rate.
EstimatedBatch(cache, now) ==
    LET f == RecentRows(cache, now)
        time_period == f[Len(f)].block_time - f[1].block_time
        time_delta == now - f[Len(f)].block_time
    IN  IF Len(f) <= 1 THEN 1
        ELSE IF time_period = 0 THEN 1
        ELSE Min(CpuCount, FloorDiv(time_delta * Len(f), time_period * PageSize))

StartPageRoundedUp(st) ==
    IF CacheExists(st)
    THEN ((Len(get_cache(st)) + PageSize - 1) \div PageSize) + 1
    ELSE 1
\* Lines 154-156 and 190-191: the page to start from.
StartPage(st) ==
    IF CacheExists(st) THEN (Len(get_cache(st)) \div PageSize) + 1 ELSE 1

\* Lines 154-195: the planned call_batch.
PlannedBatch(st, now) ==
    LET b == IF CacheExists(st) THEN EstimatedBatch(get_cache(st), now) ELSE CpuCount
    IN  IF b = 0 THEN 1 ELSE b

UnclippedBatch(cb, nc, mc) == cb
\* Lines 214-215: the round is cut down to what max_calls still allows.
ClippedBatch(cb, nc, mc) == IF nc + cb > mc THEN mc - nc ELSE cb

\* A future of executor.map.
Pending == [state |-> "pending", recs |-> << >>]
Failed == [state |-> "raised", recs |-> << >>]
Fetched(recs) == [state |-> "ok", recs |-> recs]

RECURSIVE AbsorbUntilEmpty(_, _, _)
AbsorbUntilEmpty(res, i, acc) ==
    IF i > Len(res) THEN acc
    ELSE IF res[i].state = "raised" THEN [acc EXCEPT !.error = TRUE]
    ELSE IF Len(res[i].recs) = 0 THEN [acc EXCEPT !.done = TRUE]
    ELSE AbsorbUntilEmpty(res, i + 1, [acc EXCEPT !.buf = @ \o res[i].recs])

RECURSIVE AbsorbDropShort(_, _, _)
AbsorbDropShort(res, i, acc) ==
    IF i > Len(res) THEN acc
    ELSE IF res[i].state = "raised" THEN [acc EXCEPT !.error = TRUE]
    ELSE IF Len(res[i].recs) # PageSize
         THEN IF Len(res[i].recs) = 0
              THEN [acc EXCEPT !.done = TRUE]
              ELSE AbsorbDropShort(res, i + 1, [acc EXCEPT !.done = TRUE])
         ELSE AbsorbDropShort(res, i + 1, [acc EXCEPT !.buf = @ \o res[i].recs])

RECURSIVE AbsorbReversed(_, _, _)
AbsorbReversed(res, i, acc) ==
    IF i > Len(res) THEN acc
    ELSE LET r == res[Len(res) + 1 - i]
         IN  IF r.state = "raised" THEN [acc EXCEPT !.error = TRUE]
             ELSE IF Len(r.recs) # PageSize
                  THEN IF Len(r.recs) = 0
                       THEN [acc EXCEPT !.done = TRUE]
                       ELSE AbsorbReversed(res, i + 1,
                               [acc EXCEPT !.done = TRUE, !.buf = @ \o r.recs])
                  ELSE AbsorbReversed(res, i + 1, [acc EXCEPT !.buf = @ \o r.recs])

\* Lines 224-231: the results are taken in page order; a raised result
\* re-raises, a short page sets done, an empty page ends the loop.
RECURSIVE Absorb(_, _, _)
Absorb(res, i, acc) ==
    IF i > Len(res) THEN acc
    ELSE IF res[i].state = "raised" THEN [acc EXCEPT !.error = TRUE]
    ELSE IF Len(res[i].recs) # PageSize
         THEN IF Len(res[i].recs) = 0
              THEN [acc EXCEPT !.done = TRUE]
              ELSE Absorb(res, i + 1,
                          [acc EXCEPT !.done = TRUE, !.buf = @ \o res[i].recs])
         ELSE Absorb(res, i + 1, [acc EXCEPT !.buf = @ \o res[i].recs])

\* The stores one call _cache_timestamp_data(d, cache_path, hf) may leave,
\* for a list d of models.
FlushOutcomes(st, d, hf) ==
    LET name == CacheName(DataFrame(d, FALSE))
        cdf == st[name].rows
        f == Filtered(DataFrame(d, FALSE), cdf, hf)
    IN  IF st[name].exists
        THEN IF Len(f) > 0
             THEN { [st EXCEPT ![name] = File(s)] : s \in sort_values(cdf \o f) }
             ELSE { st }
        ELSE { [st EXCEPT ![name] = File(s)] : s \in sort_values(DataFrame(d, FALSE)) }

\* Lines 234-238: the buffer spans more than one .month
SpansMonths(buf) ==
    /\ Len(buf) > 0
    /\ month(buf[1].block_time) # month(buf[Len(buf)].block_time)

\* Lines 116 and 263: the default `max_calls` is the value remaining_calls()
\* returned when the `def` statement ran, at import, with total_calls = 0.
DefaultMaxCalls == max_total_calls - 0

PipeInit ==
    /\ \E q \in {MaxQuota, MaxRuns * MaxCallsArg + 1} : GovBoot(q)
    /\ store = EmptyDisk
    /\ temp = EmptyDisk
    /\ FlushBoot
    /\ remote_len \in 0..NumRec
    /\ PipeBoot
    /\ RunBoot
    /\ ref_cache = << >>
    /\ UtxoBoot
    /\ ReadBoot
    /\ chain_info = NotFound
    /\ AssetBoot

\* Line 113 and lines 147-208: the wrapper writes TIMESTAMP and calls the
\* function; the cache is read, page and call_batch are planned and
\* ThreadPoolExecutor(call_batch) is built (ValueError when call_batch < 0).
\* The caller passes max_calls or leaves it to the default.
RunBegin ==
    /\ ppc \in {"idle", "returned", "aborted"}
    /\ runs < MaxRuns
    /\ \E mc \in 0..MaxCallsArg, dflt \in BOOLEAN, now \in NowValues :
         /\ max_calls' = IF dflt THEN DefaultMaxCalls ELSE mc
         /\ defaulted' = dflt
         /\ marker' = save_timestamp(now)
         /\ start_time' = now
         /\ page' = StartPage(store)
         /\ start_page' = StartPage(store)
         /\ call_batch' = PlannedBatch(store, now)
         /\ ppc' = IF PlannedBatch(store, now) < 0 THEN "aborted" ELSE "loop"
    /\ done' = FALSE
    /\ num_calls' = 0
    /\ transactions' = << >>
    /\ results' = << >>
    /\ runs' = runs + 1
    /\ rounds' = 0
    /\ requests' = 0
    /\ pages' = << >>
    /\ completed' = << >>
    /\ handed' = {}
    /\ UNCHANGED << total_calls, store, remote_len >>
    /\ BeginOnly

\* Lines 212-223: one more round; executor.map submits every page of it.
Dispatch ==
    /\ ppc = "loop"
    /\ ~done
    /\ num_calls < max_calls
    /\ call_batch' = ClippedBatch(call_batch, num_calls, max_calls)
    /\ num_calls' = num_calls + ClippedBatch(call_batch, num_calls, max_calls)
    /\ results' = [i \in 1..ClippedBatch(call_batch, num_calls, max_calls) |-> Pending]
    /\ pages' = pages \o [i \in 1..ClippedBatch(call_batch, num_calls, max_calls) |->
                              page + i - 1]
    /\ rounds' = rounds + 1
    /\ ppc' = "fetching"
    /\ UNCHANGED << total_calls, store, remote_len, max_calls, page, done,
                    transactions, runs, requests >>
    /\ completed' = << >>
    /\ UNCHANGED handed
    /\ PipeOnly

FetchPageUncounted(i) ==
    /\ ppc = "fetching"
    /\ i \in DOMAIN results
    /\ results[i].state = "pending"
    /\ requests' = requests + 1
    /\ results' = [results EXCEPT ![i] = Fetched(RemotePage(page + i - 1))]
    /\ UNCHANGED << total_calls, store, remote_len, ppc, max_calls, page,
                    call_batch, num_calls, done, transactions, runs, rounds >>
    /\ completed' = Append(completed, i)
    /\ UNCHANGED handed
    /\ StepOnly

\* get_transaction_batch(page + i - 1) on a worker thread: api() counts the
\* call and raises BlockfrostCallLimit, or the page is fetched.
FetchPage(i) ==
    /\ ppc = "fetching"
    /\ i \in DOMAIN results
    /\ results[i].state = "pending"
    /\ total_calls' = total_calls + 1
    /\ requests' = requests + 1
    /\ results' = [results EXCEPT ![i] =
                      IF QuotaReached(total_calls + 1)
                      THEN Failed
                      ELSE Fetched(RemotePage(page + i - 1))]
    /\ UNCHANGED << store, remote_len, ppc, max_calls, page, call_batch,
                    num_calls, done, transactions, runs, rounds >>
    /\ completed' = Append(completed, i)
    /\ UNCHANGED handed
    /\ StepOnly

\* Lines 224-231: `for thread in threads`, once every page has come back.
Collect ==
    /\ ppc = "fetching"
    /\ \A i \in DOMAIN results : results[i].state # "pending"
    /\ LET a == Absorb(results, 1,
                       [buf |-> transactions, done |-> done, error |-> FALSE])
       IN  /\ transactions' = a.buf
           /\ done' = a.done
           /\ ppc' = IF a.error THEN "aborted" ELSE "flushing"
    /\ results' = << >>
    /\ UNCHANGED << total_calls, store, remote_len, max_calls, page,
                    call_batch, num_calls, runs, rounds, requests >>
    /\ UNCHANGED << completed, handed >>
    /\ StepOnly

\* Lines 234-246: one turn of the while loop that stores a collected month.
LoopFlush ==
    /\ ppc = "flushing"
    /\ SpansMonths(transactions)
    /\ store' \in FlushOutcomes(store, transactions, FALSE)
    /\ transactions' = Remainder(transactions)
    /\ UNCHANGED << total_calls, remote_len, ppc, max_calls, page, call_batch,
                    num_calls, done, results, runs, rounds, requests >>
    /\ handed' = handed \cup { r.hash : r \in Range(DataFrame(transactions, FALSE)) }
    /\ UNCHANGED completed
    /\ StepOnly

NextRoundStuck ==
    /\ ppc = "flushing"
    /\ ~SpansMonths(transactions)
    /\ page' = page
    /\ ppc' = "loop"
    /\ UNCHANGED << total_calls, store, remote_len, max_calls, call_batch,
                    num_calls, done, transactions, results, runs, rounds,
                    requests >>
    /\ UNCHANGED << completed, handed >>
    /\ StepOnly

\* Line 247: page += call_batch
NextRound ==
    /\ ppc = "flushing"
    /\ ~SpansMonths(transactions)
    /\ page' = page + call_batch
    /\ ppc' = "loop"
    /\ UNCHANGED << total_calls, store, remote_len, max_calls, call_batch,
                    num_calls, done, transactions, results, runs, rounds,
                    requests >>
    /\ UNCHANGED << completed, handed >>
    /\ StepOnly

FinalFlushSkipped ==
    /\ ppc = "loop"
    /\ done \/ num_calls >= max_calls
    /\ Len(transactions) > 0
    /\ ppc' = "returned"
    /\ UNCHANGED << total_calls, store, remote_len, max_calls, page, call_batch,
                    num_calls, done, transactions, results, runs, rounds,
                    requests, completed, handed >>
    /\ StepOnly

\* Lines 249-255: the loop has ended and what is buffered is stored.
FinalFlush ==
    /\ ppc = "loop"
    /\ done \/ num_calls >= max_calls
    /\ Len(transactions) > 0
    /\ store' \in FlushOutcomes(store, transactions, FALSE)
    /\ ppc' = "returned"
    /\ UNCHANGED << total_calls, remote_len, max_calls, page, call_batch,
                    num_calls, done, transactions, results, runs, rounds,
                    requests >>
    /\ handed' = handed \cup { r.hash : r \in Range(DataFrame(transactions, FALSE)) }
    /\ UNCHANGED completed
    /\ StepOnly

\* Line 257: return num_calls, with nothing buffered.
ReturnEmpty ==
    /\ ppc = "loop"
    /\ done \/ num_calls >= max_calls
    /\ Len(transactions) = 0
    /\ ppc' = "returned"
    /\ UNCHANGED << total_calls, store, remote_len, max_calls, page,
                    call_batch, num_calls, done, transactions, results, runs,
                    rounds, requests >>
    /\ UNCHANGED << completed, handed >>
    /\ StepOnly

\* Between two runs the chain appends records to the listing.
RemoteGrows ==
    /\ ppc \in {"idle", "returned", "aborted"}
    /\ remote_len < NumRec
    /\ remote_len' \in (remote_len + 1)..NumRec
    /\ ppc' = "idle"
    /\ UNCHANGED << total_calls, store, max_calls, page, call_batch,
                    num_calls, done, transactions, results, runs, rounds,
                    requests >>
    /\ UNCHANGED << completed, handed >>
    /\ StepOnly

PipeNext ==
    \/ RunBegin
    \/ Dispatch
    \/ \E i \in 1..CpuCount : FetchPage(i)
    \/ Collect
    \/ LoopFlush
    \/ NextRound
    \/ FinalFlush
    \/ ReturnEmpty
    \/ RemoteGrows

SpecPipe == PipeInit /\ [][PipeNext]_vars

(***************************************************************************)
(* The chain does not wait for a round: the pool's listing may gain        *)
(* records while the page requests of a round are in flight, so two        *)
(* requests of one round may see listings of different length.             *)
(***************************************************************************)
RemoteGrowsInFlight ==
    /\ ppc = "fetching"
    /\ remote_len < NumRec
    /\ remote_len' \in (remote_len + 1)..NumRec
    /\ UNCHANGED << total_calls, store, ppc, max_calls, page, call_batch,
                    num_calls, done, transactions, results, runs, rounds,
                    requests, completed, handed >>
    /\ StepOnly

GrowNext == PipeNext \/ RemoteGrowsInFlight

SpecPipeGrow == PipeInit /\ [][GrowNext]_vars

(***************************************************************************)
(* assets.cache_history: one page per turn of its loop, and one write of   *)
(* history.arrow at the end.  The asset's history is a listing like the    *)
(* pool's, read in ascending order, and it may grow at any time.           *)
(***************************************************************************)
HistOnly == UNCHANGED << num_limit_calls, last_call, max_total_calls, call_lock,
                         clock, gpc, gtmp, gnow, ordinal, seen, started, granted,
                         raised, resets, diskVars, flushVars, results, rounds,
                         start_page, pages, completed, handed, utxoVars,
                         readVars, assetVars >>

iloc_all(df, k) == df
\* df.iloc[threshold:]
iloc(df, k) == SubSeq(df, k + 1, Len(df))

\* Line 423 and lines 449-474: the wrapper writes TIMESTAMP and calls the
\* function; the cache is opened and the start page taken from its length.
HistBegin ==
    /\ ppc \in {"idle", "returned", "aborted"}
    /\ runs < MaxRuns
    /\ \E mc \in 0..MaxCallsArg, dflt \in BOOLEAN, now \in NowValues :
         /\ max_calls' = IF dflt THEN DefaultMaxCalls ELSE mc
         /\ defaulted' = dflt
         /\ marker' = save_timestamp(now)
         /\ start_time' = now
    /\ page' = IF history.exists THEN (Len(history.rows) \div PageSize) + 1 ELSE 1
    /\ cache_len' = Len(history.rows)
    /\ call_batch' = 1
    /\ done' = FALSE
    /\ num_calls' = 0
    /\ transactions' = << >>
    /\ runs' = runs + 1
    /\ requests' = 0
    /\ ppc' = "loop"
    /\ UNCHANGED << total_calls, remote_len, history >>
    /\ HistOnly

\* Lines 475-491: one turn of the while loop.  api() counts the call and
\* raises BlockfrostCallLimit out of cache_history, or the page comes back.
HistFetch ==
    /\ ppc = "loop"
    /\ ~done
    /\ num_calls < max_calls
    /\ call_batch' = ClippedBatch(call_batch, num_calls, max_calls)
    /\ num_calls' = num_calls + ClippedBatch(call_batch, num_calls, max_calls)
    /\ total_calls' = total_calls + 1
    /\ requests' = requests + 1
    /\ IF QuotaReached(total_calls + 1)
       THEN /\ ppc' = "aborted"
            /\ UNCHANGED << done, transactions, page >>
       ELSE /\ ppc' = "loop"
            /\ done' = (Len(RemotePage(page)) # PageSize)
            /\ IF Len(RemotePage(page)) = 0
               THEN UNCHANGED << transactions, page >>
               ELSE /\ transactions' = transactions \o RemotePage(page)
                    /\ page' = page + ClippedBatch(call_batch, num_calls, max_calls)
    /\ UNCHANGED << remote_len, max_calls, runs, history, cache_len, runVars >>
    /\ HistOnly

\* Lines 493-521: what was fetched is written behind the rows of
\* history.arrow, without the first len(cache) % 100 records, or becomes
\* history.arrow; then `return num_calls`.
HistWrite ==
    /\ ppc = "loop"
    /\ done \/ num_calls >= max_calls
    /\ history' =
          IF Len(transactions) = 0 THEN history
          ELSE IF history.exists
               THEN IF Len(iloc(transactions, cache_len % PageSize)) > 0
                    THEN File(history.rows \o iloc(transactions, cache_len % PageSize))
                    ELSE history
               ELSE File(transactions)
    /\ ppc' = "returned"
    /\ UNCHANGED << total_calls, remote_len, max_calls, page, call_batch,
                    num_calls, done, transactions, runs, requests, cache_len,
                    runVars >>
    /\ HistOnly

\* The chain appends records to the asset's history.
HistGrows ==
    /\ remote_len < NumRec
    /\ remote_len' \in (remote_len + 1)..NumRec
    /\ UNCHANGED << total_calls, ppc, max_calls, page, call_batch, num_calls,
                    done, transactions, runs, requests, history, cache_len,
                    runVars >>
    /\ HistOnly

HistNext ==
    \/ HistBegin
    \/ HistFetch
    \/ HistWrite
    \/ HistGrows

SpecHist == PipeInit /\ [][HistNext]_vars

(***************************************************************************)
(* cache_utxos.  A frame of get_utxo is one row: the hash and the          *)
(* block_time of its transaction.  In SpecUtxo `store` is the pool's UTXO  *)
(* cache path and ref_cache the pool's transaction cache.                  *)
(***************************************************************************)
\* Lines 298-306: the references newer than the last cached UTXO row.
PendingRefsInclusive(refs, st) ==
    IF CacheExists(st)
    THEN SelectSeq(refs, LAMBDA r :
             r.block_time >= get_cache(st)[Len(get_cache(st))].block_time)
    ELSE refs

PendingRefs(refs, st) ==
    IF CacheExists(st)
    THEN SelectSeq(refs, LAMBDA r :
             r.block_time > get_cache(st)[Len(get_cache(st))].block_time)
    ELSE refs

\* The stores one call _cache_timestamp_data(d, cache_path) may leave, for a
\* list d of frames.
FrameFlushOutcomes(st, d, hf) ==
    LET name == CacheName(DataFrame(d, TRUE))
        cdf == st[name].rows
        f == Filtered(DataFrame(d, TRUE), cdf, hf)
    IN  IF st[name].exists
        THEN IF Len(f) > 0
             THEN { [st EXCEPT ![name] = File(s)] : s \in sort_values(cdf \o f) }
             ELSE { st }
        ELSE { [st EXCEPT ![name] = File(s)] : s \in sort_values(DataFrame(d, TRUE)) }

RECURSIVE Frames(_, _)
Frames(res, i) ==
    IF i > Len(res) THEN << >> ELSE res[i].recs \o Frames(res, i + 1)

UtxoInit ==
    /\ \E q \in {MaxQuota, MaxRuns * MaxCallsArg + 1} : GovBoot(q)
    /\ store = EmptyDisk
    /\ temp = EmptyDisk
    /\ FlushBoot
    /\ remote_len = NumRec
    /\ PipeBoot
    /\ RunBoot
    /\ \E k \in 0..NumRec : ref_cache = SeqOfHashes(1..k)
    /\ UtxoBoot
    /\ ReadBoot
    /\ chain_info = NotFound
    /\ AssetBoot

\* Line 260 and lines 289-317: the wrapper writes TIMESTAMP and calls the
\* function; the two caches are read, and the function returns 0 or maps
\* get_utxo over the first last_index pending references.
UtxoBegin ==
    /\ ppc \in {"idle", "returned", "aborted"}
    /\ runs < MaxRuns
    /\ \E mc \in 0..MaxCallsArg, dflt \in BOOLEAN, pr \in BOOLEAN, now \in NowValues :
         LET limit == IF dflt THEN DefaultMaxCalls ELSE mc
             todo == PendingRefs(ref_cache, store)
             early == Len(ref_cache) = 0 \/ Len(todo) = 0
         IN  /\ max_calls' = limit
             /\ defaulted' = dflt
             /\ progress' = pr
             /\ marker' = save_timestamp(now)
             /\ start_time' = now
             /\ u_cache' = IF Len(ref_cache) = 0 THEN << >> ELSE todo
             /\ last_index' = IF early THEN 0 ELSE Min(limit, Len(todo))
             /\ results' = IF early THEN << >>
                           ELSE [i \in 1..Min(limit, Len(todo)) |-> Pending]
             /\ ppc' = IF early THEN "returned" ELSE "fetching"
    /\ num_calls' = 0
    /\ requests' = 0
    /\ tx_utxos' = << >>
    /\ runs' = runs + 1
    /\ UNCHANGED << total_calls, store, ref_cache >>
    /\ UtxoBeginOnly

\* get_utxo(cache.tx_hash[i]) on a worker thread: api() counts the call and
\* raises BlockfrostCallLimit, or the frame of the transaction comes back.
UtxoFetch(i) ==
    /\ ppc = "fetching"
    /\ i \in DOMAIN results
    /\ results[i].state = "pending"
    /\ total_calls' = total_calls + 1
    /\ requests' = requests + 1
    /\ results' = [results EXCEPT ![i] =
                      IF QuotaReached(total_calls + 1)
                      THEN Failed
                      ELSE Fetched(<< u_cache[i] >>)]
    /\ UNCHANGED << store, ref_cache, ppc, max_calls, num_calls, runs, progress,
                    u_cache, last_index, tx_utxos >>
    /\ UtxoOnly

\* Lines 321-352: the zip loop takes the frames in order; a raised result
\* re-raises out of cache_utxos.  Only the branch without a progress bar
\* counts: `num_calls += 1` (line 349).
UtxoCollect ==
    /\ ppc = "fetching"
    /\ \A i \in DOMAIN results : results[i].state # "pending"
    /\ IF \E i \in DOMAIN results : results[i].state = "raised"
       THEN /\ ppc' = "aborted"
            /\ UNCHANGED << num_calls, tx_utxos >>
       ELSE /\ ppc' = "flushing"
            /\ num_calls' = IF progress THEN num_calls ELSE num_calls + Len(results)
            /\ tx_utxos' = Frames(results, 1)
    /\ results' = << >>
    /\ UNCHANGED << total_calls, store, ref_cache, max_calls, runs, requests,
                    progress, u_cache, last_index >>
    /\ UtxoOnly

\* Lines 354-360: one turn of `while len(tx_utxos) > 0`.
UtxoFlush ==
    /\ ppc = "flushing"
    /\ Len(tx_utxos) > 0
    /\ store' \in FrameFlushOutcomes(store, tx_utxos, FALSE)
    /\ tx_utxos' = Remainder(tx_utxos)
    /\ UNCHANGED << total_calls, ref_cache, ppc, max_calls, num_calls, results,
                    runs, requests, progress, u_cache, last_index >>
    /\ UtxoOnly

\* Line 362: return num_calls
UtxoReturn ==
    /\ ppc = "flushing"
    /\ Len(tx_utxos) = 0
    /\ ppc' = "returned"
    /\ UNCHANGED << total_calls, store, ref_cache, max_calls, num_calls, results,
                    runs, requests, progress, u_cache, last_index, tx_utxos >>
    /\ UtxoOnly

\* Between two runs cache_transactions extends the transaction cache.
RefCacheGrows ==
    /\ ppc \in {"idle", "returned", "aborted"}
    /\ Len(ref_cache) < NumRec
    /\ \E k \in (Len(ref_cache) + 1)..NumRec : ref_cache' = SeqOfHashes(1..k)
    /\ ppc' = "idle"
    /\ UNCHANGED << total_calls, store, max_calls, num_calls, results, runs,
                    requests, progress, u_cache, last_index, tx_utxos >>
    /\ UtxoOnly

UtxoNext ==
    \/ UtxoBegin
    \/ \E i \in 1..NumRec : UtxoFetch(i)
    \/ UtxoCollect
    \/ UtxoFlush
    \/ UtxoReturn
    \/ RefCacheGrows

SpecUtxo == UtxoInit /\ [][UtxoNext]_vars

(***************************************************************************)
(* Runs to completion.  A caller works on a pool whose transaction cache   *)
(* is still empty, and runs cache_transactions on it, or on a pool with    *)
(* cached references, and runs cache_utxos on it.  The interpreter keeps   *)
(* running the calling thread, and every request a worker thread makes     *)
(* comes back or raises, so a step that can be taken is taken in the end.  *)
(***************************************************************************)
RunsInit == PipeInit \/ UtxoInit

RunsNext ==
    \/ Len(ref_cache) = 0 /\ PipeNext
    \/ Len(ref_cache) > 0 /\ UtxoNext

SpecRunsLive == RunsInit /\ [][RunsNext]_vars /\ WF_vars(RunsNext)

(***************************************************************************)
(* The asset info cache and asset_ticker                                   *)
(***************************************************************************)
\* AssetIdentity._validate_asset_name (mode="before"): a missing asset_name
\* is taken from metadata["name"].
model_validate(values) ==
    IF ~values.asset_name.some /\ values.metadata.some
    THEN [values EXCEPT !.asset_name = Some(values.metadata.v.name)]
    ELSE values

\* json.dump(asset_id.model_dump(), fw): None is written as null, a value
\* as itself.
ToJson(opt) == IF opt.some THEN [null |-> FALSE, value |-> opt.v] ELSE [null |-> TRUE]
FromJson(j) == IF j.null THEN Null ELSE Some(j.value)

json_dump(id) ==
    [asset_name |-> ToJson(id.asset_name),
     metadata |-> IF id.metadata.some
                  THEN ToJson(Some([name |-> id.metadata.v.name,
                                    ticker |-> ToJson(id.metadata.v.ticker)]))
                  ELSE ToJson(Null),
     onchain_metadata |-> IF id.onchain_metadata.some
                          THEN ToJson(Some([has_symbol |-> id.onchain_metadata.v.has_symbol,
                                            symbol |-> ToJson(id.onchain_metadata.v.symbol)]))
                          ELSE ToJson(Null)]

\* AssetIdentity.model_validate_json(data): parse, then validate.
model_validate_json(text) ==
    model_validate(
      [asset_name |-> FromJson(text.asset_name),
       metadata |-> IF text.metadata.null THEN Null
                    ELSE Some([name |-> text.metadata.value.name,
                               ticker |-> FromJson(text.metadata.value.ticker)]),
       onchain_metadata |-> IF text.onchain_metadata.null THEN Null
                            ELSE Some([has_symbol |-> text.onchain_metadata.value.has_symbol,
                                       symbol |-> FromJson(text.onchain_metadata.value.symbol)])])

\* Line 225: `if update_cache or not asset_path.exists()`
NeedsUpdateIfMissing(uc, exists) == ~exists
NeedsUpdate(uc, exists) == uc \/ ~exists

AssetEnter(fn, u, uc) ==
    /\ apc \in {"idle", "returned", "raised"}
    /\ lookups < MaxLookups
    /\ lookups' = lookups + 1
    /\ entry' = fn
    /\ unit' = u
    /\ update_cache' = uc
    /\ asset_calls' = 0
    /\ had_file' = asset_file.exists
    /\ info' = Null
    /\ UNCHANGED << total_calls, marker, chain_info, asset_file, last_written,
                    chain_changes >>
    /\ AssetOnly

\* get_asset_info(asset, update_cache), lines 224-226.
GetAssetInfo ==
    \E uc \in BOOLEAN :
      /\ AssetEnter("get_asset_info", "asset", uc)
      /\ ticker' = [kind |-> "pending"]
      /\ apc' = IF NeedsUpdate(uc, asset_file.exists) THEN "wrapper" ELSE "read"

\* update_asset_info(asset) called directly.
UpdateAssetInfo ==
    /\ AssetEnter("update_asset_info", "asset", TRUE)
    /\ ticker' = [kind |-> "pending"]
    /\ apc' = "wrapper"

\* asset_ticker(unit), lines 300-304: "ADA" for lovelace, else
\* get_asset_info(unit).
AssetTicker ==
    \E u \in {"lovelace", "asset"} :
      /\ AssetEnter("asset_ticker", u, FALSE)
      /\ ticker' = IF u = "lovelace" THEN TickerValue(<< "A", "D", "A" >>)
                   ELSE [kind |-> "pending"]
      /\ apc' = IF u = "lovelace" THEN "returned"
                ELSE IF NeedsUpdate(FALSE, asset_file.exists) THEN "wrapper"
                ELSE "read"

\* The save_timestamp wrapper of update_asset_info (line 185).
AssetTimestamp ==
    /\ apc = "wrapper"
    /\ marker' = save_timestamp(clock)
    /\ apc' = "calling"
    /\ UNCHANGED << total_calls, chain_info, asset_file, entry, unit, update_cache,
                    asset_calls, had_file, info, ticker, last_written, lookups,
                    chain_changes >>
    /\ AssetOnly

\* Lines 197-204: api().asset(asset), model_validate, the write of
\* asset.json and the return; the governor or the request may raise.
ApiAsset ==
    /\ apc = "calling"
    /\ total_calls' = total_calls + 1
    /\ asset_calls' = asset_calls + 1
    /\ IF QuotaReached(total_calls + 1) \/ ~chain_info.found
       THEN /\ apc' = "raised"
            /\ UNCHANGED << asset_file, info, last_written >>
       ELSE /\ asset_file' = [exists |-> TRUE,
                               text |-> json_dump(model_validate(chain_info.raw))]
            /\ info' = Some(model_validate(chain_info.raw))
            /\ last_written' = Some(model_validate(chain_info.raw))
            /\ apc' = IF entry = "asset_ticker" THEN "name" ELSE "returned"
    /\ UNCHANGED << marker, chain_info, entry, unit, update_cache, had_file, ticker,
                    lookups, chain_changes >>
    /\ AssetOnly

\* Lines 228-230: the cached file is read and validated.
ReadAssetFile ==
    /\ apc = "read"
    /\ info' = Some(model_validate_json(asset_file.text))
    /\ apc' = IF entry = "asset_ticker" THEN "name" ELSE "returned"
    /\ UNCHANGED << total_calls, marker, chain_info, asset_file, entry, unit,
                    update_cache, asset_calls, had_file, ticker, last_written,
                    lookups, chain_changes >>
    /\ AssetOnly

\* bytes.fromhex(s): two hex digits per byte; ValueError on anything else.
\* The digits are those of both cases.
HexDigits ==
    DigitChars \o << "a", "b", "c", "d", "e", "f" >> \o << "A", "B", "C", "D", "E", "F" >>
IsHex(s) ==
    /\ Len(s) % 2 = 0
    /\ \A i \in DOMAIN s : s[i] \in Range(HexDigits)
HexValue(c) ==
    LET i == CHOOSE k \in DOMAIN HexDigits : HexDigits[k] = c
    IN  IF i <= 16 THEN i - 1 ELSE i - 7
fromhex(s) == [i \in 1..(Len(s) \div 2) |-> 16 * HexValue(s[2 * i - 1]) + HexValue(s[2 * i])]

\* bytes.decode(): the text of the bytes; UnicodeDecodeError on a byte that
\* is no ASCII character (single bytes only occur here).
decode(bytes) ==
    [i \in DOMAIN bytes |-> IF bytes[i] = 116 THEN "t" ELSE IF bytes[i] = 65 THEN "A" ELSE "?"]

\* Lines 306-330 with the UnicodeDecodeError handler the only one: the ticker,
\* the symbol, the decoded asset name or the raw asset name.
asset_name_of(id) ==
    IF id.metadata.some /\ id.metadata.v.ticker.some
    THEN TickerValue(id.metadata.v.ticker.v)
    ELSE IF /\ id.onchain_metadata.some
            /\ id.onchain_metadata.v.has_symbol
            /\ id.onchain_metadata.v.symbol.some
    THEN TickerValue(id.onchain_metadata.v.symbol.v)
    ELSE IF ~id.asset_name.some THEN TickerError("AssertionError")
    ELSE IF ~IsHex(id.asset_name.v) THEN TickerError("ValueError")
    ELSE IF \E b \in Range(fromhex(id.asset_name.v)) : b >= 128
         THEN TickerValue(id.asset_name.v)
    ELSE TickerValue(decode(fromhex(id.asset_name.v)))

\* asset_ticker after get_asset_info has returned: lines 305-332.
TickerName ==
    /\ apc = "name"
    /\ ticker' = asset_name_of(info.v)
    /\ apc' = IF asset_name_of(info.v).kind = "error" THEN "raised" ELSE "returned"
    /\ UNCHANGED << total_calls, marker, chain_info, asset_file, entry, unit,
                    update_cache, asset_calls, had_file, info, last_written,
                    lookups, chain_changes >>
    /\ AssetOnly

\* The asset is minted, its registry entry or its on-chain metadata changes.
ChainChanges ==
    /\ chain_changes < MaxChainChanges
    /\ chain_changes' = chain_changes + 1
    /\ chain_info' \in ChainInfos \ {chain_info}
    /\ UNCHANGED << total_calls, marker, asset_file, apc, entry, unit, update_cache,
                    asset_calls, had_file, info, ticker, last_written, lookups >>
    /\ AssetOnly

AssetInit ==
    /\ \E q \in {1, MaxLookups + 1} : GovBoot(q)
    /\ store = EmptyDisk
    /\ temp = EmptyDisk
    /\ FlushBoot
    /\ remote_len = NumRec
    /\ PipeBoot
    /\ RunBoot
    /\ ref_cache = << >>
    /\ UtxoBoot
    /\ ReadBoot
    /\ chain_info \in ChainInfos
    /\ AssetBoot

AssetNext ==
    \/ GetAssetInfo
    \/ UpdateAssetInfo
    \/ AssetTicker
    \/ AssetTimestamp
    \/ ApiAsset
    \/ ReadAssetFile
    \/ TickerName
    \/ ChainChanges

SpecAsset == AssetInit /\ [][AssetNext]_vars

GovInit ==
    /\ \E q \in 0..MaxQuota : GovBoot(q)
    /\ store = EmptyDisk
    /\ temp = EmptyDisk
    /\ FlushBoot
    /\ remote_len = NumRec
    /\ PipeBoot
    /\ RunBoot
    /\ ref_cache = << >>
    /\ UtxoBoot
    /\ ReadBoot
    /\ chain_info = NotFound
    /\ AssetBoot

SpecGov == GovInit /\ [][GovNext]_vars

\* A thread inside _limiter keeps running: the interpreter hands it the
\* processor again and again, time.sleep returns, and call_lock, once it
\* stays free, is given to a thread that waits for it.
SpecGovLive ==
    /\ GovInit
    /\ [][GovNext]_vars
    /\ \A t \in Threads :
          WF_vars(\/ LockAndLoad(t) \/ Increment(t) \/ RaiseLimit(t)
                  \/ Backoff(t) \/ WakeUp(t) \/ Unlock(t)
                  \/ DecayLoad(t) \/ DecayStore(t) \/ AfterRaise(t))

(***************************************************************************)
(* Properties of the governor (SpecGov)                                    *)
(***************************************************************************)
\* Calls that have passed the quota test: returned, or past the `with` block.
Admitted == granted + Cardinality({ t \in Threads : gpc[t] \in {"decay", "decay_store"} })

\* C1: as long as reset_total_calls has not been called, the number of
\* calls granted since process start never exceeds max_total_calls, under
\* every interleaving of the threads.
C1_QuotaNeverExceeded == (resets = 0) => (Admitted <= max_total_calls)

\* C1 witness: calls were granted, the quota has since been refused to a
\* caller, and another thread is waiting for call_lock.
C1_Witness ==
    /\ resets = 0
    /\ granted >= 1
    /\ raised >= 1
    /\ \E t \in Threads : gpc[t] = "wait_lock"

\* C2: counting calls from total_calls = 0, the calls numbered
\* 1..max_total_calls are granted and BlockfrostCallLimit is first raised by
\* the call numbered max_total_calls + 1, not one call earlier.
C2_RaisedOnlyPastQuota ==
    (resets = 0) =>
        \A t \in Threads :
            /\ (gpc[t] = "raised") => (ordinal[t] >= max_total_calls + 1)
            /\ (gpc[t] \in {"decay", "decay_store"}) => (ordinal[t] <= max_total_calls)

(***************************************************************************)
(* Properties of one flush (SpecFlush)                                     *)
(***************************************************************************)
Count(rows, r) == Cardinality({ i \in DOMAIN rows : rows[i] = r })
MaxTime(rows) ==
    CHOOSE t \in { r.block_time : r \in Range(rows) } :
        \A r \in Range(rows) : r.block_time <= t
NoDuplicates(rows) == \A i, j \in DOMAIN rows : (rows[i] = rows[j]) => (i = j)
AllRecords == { Record(h) : h \in 1..NumRec }

\* A call that found its partition on disk has returned.
MergedFlushDone == fpc = "done" /\ Len(cache_df) > 0

\* C5: timestamp mode. When the partition existed with greatest block_time
\* T, after the flush it holds exactly its former rows plus the rows of the
\* incoming frame df with block_time > T, ascending in block_time and
\* without duplicates.
C5_TimestampMerge ==
    (MergedFlushDone /\ ~hash_filter) =>
        /\ \A r \in AllRecords :
              Count(store[path].rows, r) =
                  Count(cache_df, r)
                  + Count(SelectSeq(DataFrame(data, frames),
                                    LAMBDA x : x.block_time > MaxTime(cache_df)), r)
        /\ IsSorted(store[path].rows)
        /\ NoDuplicates(store[path].rows)
        /\ store[path].complete

\* C5 witness: a batch of one month with a record at or below T and a
\* record above T has been merged.
C5_Witness ==
    /\ MergedFlushDone
    /\ ~hash_filter
    /\ OneMonth(data)
    /\ \E r \in Range(data) : r.block_time <= MaxTime(cache_df)
    /\ \E r \in Range(data) : r.block_time > MaxTime(cache_df)
    /\ Len(store[path].rows) > Len(cache_df)

\* C6: hash mode. After a flush into an existing partition the partition
\* holds exactly its former rows plus the rows of the incoming frame df whose
\* hash it did not hold, whatever their block_time.
C6_HashMerge ==
    (MergedFlushDone /\ hash_filter) =>
        /\ \A r \in AllRecords :
              Count(store[path].rows, r) =
                  Count(cache_df, r)
                  + Count(SelectSeq(DataFrame(data, frames),
                                    LAMBDA x : \A c \in Range(cache_df) : c.hash # x.hash), r)
        /\ \A c \in Range(cache_df) : c \in Range(store[path].rows)

\* C6 witness: half of the batch's hashes were stored already, the other
\* half was added, and one added record is not newer than the stored ones.
C6_Witness ==
    /\ MergedFlushDone
    /\ hash_filter
    /\ OneMonth(data)
    /\ 2 * Cardinality({ i \in DOMAIN data : data[i] \in Range(cache_df) }) = Len(data)
    /\ 2 * (Len(store[path].rows) - Len(cache_df)) = Len(data)
    /\ \E r \in Range(data) :
          r \notin Range(cache_df) /\ r.block_time <= MaxTime(cache_df)

\* C7: when a merge into an existing partition stops after the temporary
\* file was written and before the rename has completed, the partition file
\* still exists with its pre-flush rows.
C7_OriginalSurvivesFailure ==
    (fpc = "crashed" /\ crash_at \in {"unlink", "rename"}) =>
        store[path] = File(cache_df)

\* C8: at every instant of a flush, a file found under the partition name
\* holds the complete pre-flush rows or the complete post-flush rows.
C8_NeverHalfWritten ==
    (fpc \notin {"idle", "done"}) =>
        (store[path].exists =>
            /\ store[path].complete
            /\ store[path].rows \in {cache_df, to_write})

\* C9: flushing a record set of one month a second time, right after
\* flushing it against the empty store, leaves every file as the first flush
\* left it.
C9_FlushIdempotent == (fpc = "done" /\ repeat) => (store = snap /\ temp = EmptyDisk)

\* C9 witness: a set of several records, two of equal block_time, has been
\* flushed twice.
C9_Witness ==
    /\ fpc = "done"
    /\ repeat
    /\ Len(data) >= 3
    /\ \E i, j \in DOMAIN data : i # j /\ data[i].block_time = data[j].block_time

(***************************************************************************)
(* Properties of cache_transactions (SpecPipe)                             *)
(***************************************************************************)
\* C3: a run dispatches at most max_calls page requests: num_calls never
\* passes max_calls, a round holds no more requests than max_calls still
\* allows (the last round is cut to max_calls - num_calls), and with
\* max_calls = 0 nothing is dispatched.
C3_CallBudgetRespected ==
    /\ [](/\ num_calls <= max_calls
          /\ requests <= max_calls
          /\ (max_calls = 0) => (rounds = 0 /\ requests = 0))
    /\ [][(ppc = "loop" /\ ppc' = "fetching") =>
             /\ Len(results') = Min(call_batch, max_calls - num_calls)
             /\ num_calls' = num_calls + Len(results')]_vars

\* C3 witness: a run has returned after a second round that was cut down to
\* reach max_calls exactly, and every request of it was executed.
C3_Witness ==
    /\ ppc = "returned"
    /\ rounds >= 2
    /\ call_batch < CpuCount
    /\ num_calls = max_calls
    /\ requests = max_calls

\* C4: every record stored in the partition named YYYYMM has its block_time
\* in that year and month (so no two partitions hold records of one month).
C4_PartitionsHoldTheirMonth ==
    \A n \in PartNames :
        \A r \in Range(store[n].rows) :
            year(r.block_time) * 100 + month(r.block_time) = n

\* The store holds the first k records of the listing, each exactly once.
HoldsPrefix(k) ==
    \A h \in 1..NumRec :
        Count(get_cache(store), Record(h)) = IF h <= k THEN 1 ELSE 0

\* C10: after every run the store holds a prefix of the remote listing with
\* every record of the prefix exactly once, and after a run that saw the end
\* of the data it holds the whole listing.
C10_ResumeNoGapNoDuplicate ==
    (ppc = "returned") =>
        /\ \E k \in 0..remote_len : HoldsPrefix(k)
        /\ done => HoldsPrefix(remote_len)

\* C11: a run with no cache starts at page 1; a run with a cache of n >= 1
\* records starts at the page floor(n / page size) + 1, that is the page p
\* with (p - 1) * page size <= n < p * page size.
C11_StartPage ==
    (runs > 0 /\ rounds = 0) =>
        LET n == Len(get_cache(store))
        IN  /\ (~CacheExists(store)) => (page = 1)
            /\ CacheExists(store) =>
                  /\ n >= 1
                  /\ (page - 1) * PageSize <= n
                  /\ n < page * PageSize

\* C11 witness: a second run found a cache of exactly two full pages and
\* starts at page 3.
C11_Witness ==
    /\ runs = 2
    /\ rounds = 0
    /\ ppc = "loop"
    /\ Len(get_cache(store)) = 2 * PageSize
    /\ page = 3

\* C12: for every cache content and every clock value the planned
\* call_batch lies in 1..cpu_count; it is cpu_count when no cache exists and
\* 1 when the cache holds fewer than two records.
C12_BatchWidthInRange ==
    (runs > 0 /\ rounds = 0) =>
        /\ 1 <= call_batch
        /\ call_batch <= CpuCount
        /\ (~CacheExists(store)) => (call_batch = CpuCount)
        /\ (CacheExists(store) /\ Len(get_cache(store)) < 2) => (call_batch = 1)

\* The last page of the round that holds page P, for rounds of cpu_count
\* pages from page 1 on.
RoundEnd(P) == ((P + CpuCount - 1) \div CpuCount) * CpuCount

\* The first run (empty cache) meets a listing whose pages 1..P-1 are full
\* and whose page P is short (the listing has not grown since the run
\* began), and neither max_calls nor the quota stops the run before the
\* round of page P is complete.
Scenario(P) ==
    /\ runs = 1
    /\ ppc # "idle"
    /\ (P - 1) * PageSize < remote_len
    /\ remote_len < P * PageSize
    /\ max_calls >= RoundEnd(P)
    /\ max_total_calls > RoundEnd(P)

\* C13: with an empty cache, rounds of cpu_count pages and a listing whose
\* pages 1..P-1 are full and whose page P is short, the run issues exactly
\* the calls up to the end of the round of page P, sets done in that round,
\* requests no page of a later round and returns that number of calls: when
\* P is the last page of its round (the source's example: cpu_count = 3,
\* P = 6) exactly P calls, and no call for page P + 1.  In every run, a
\* round that brought a short page sets done, and once done is set no
\* further round is dispatched.
C13_StopsAtShortPage ==
    /\ [](\A P \in 1..NumRec :
             Scenario(P) =>
                 /\ requests <= RoundEnd(P)
                 /\ num_calls <= RoundEnd(P)
                 /\ ppc # "aborted"
                 /\ done => (num_calls = RoundEnd(P))
                 /\ (ppc = "returned") =>
                       (num_calls = RoundEnd(P) /\ requests = RoundEnd(P) /\ done))
    /\ [][/\ \A P \in 1..NumRec, i \in DOMAIN results :
               (/\ Scenario(P)
                /\ results[i].state = "pending"
                /\ i \in DOMAIN results'
                /\ results'[i].state # "pending") => (page + i - 1 <= RoundEnd(P))
          /\ (/\ ppc = "fetching"
              /\ ppc' = "flushing"
              /\ \E i \in DOMAIN results : Len(results[i].recs) < PageSize) => done'
          /\ (done /\ runs' = runs) => (done' /\ rounds' = rounds)]_vars

\* C13 witness: the first run has returned 2 = cpu_count calls from a
\* listing of one full page, one short page and nothing after it, with
\* max_calls and the quota allowing more.
C13_Witness ==
    /\ Scenario(CpuCount)
    /\ RoundEnd(CpuCount) = CpuCount
    /\ ppc = "returned"
    /\ max_calls > CpuCount
    /\ num_calls = CpuCount
    /\ requests = CpuCount
    /\ done

\* C14: a run that returns normally returns the number of page requests it
\* dispatched, all of which were executed; each of them passed through
\* api() once, so while the run is the governor's only user total_calls
\* grows by exactly the number of requests.
C14_ReturnsCallsMade ==
    /\ []((ppc = "returned") => (num_calls = requests))
    /\ [][(runs' = runs) =>
             (total_calls' - total_calls = requests' - requests)]_vars

\* C14 witness: a second run has returned after two rounds, a clipped one
\* among them, and the governor has counted the calls of both runs.
C14_Witness ==
    /\ ppc = "returned"
    /\ runs = 2
    /\ rounds = 2
    /\ num_calls = 3
    /\ requests = 3
    /\ total_calls > num_calls

(***************************************************************************)
(* Properties of cache_utxos (SpecUtxo)                                    *)
(***************************************************************************)
\* C15: with and without a progress bar, the value cache_utxos returns is
\* the number of get_utxo remote calls the run issued.
C15_UtxoReturnsCallCount == (ppc = "returned") => (num_calls = requests)

(***************************************************************************)
(* Properties of the wrapper and the default argument (SpecPipe)           *)
(***************************************************************************)
\* C16: a run called without max_calls uses as its call limit the calls the
\* governor still permits when the run is called, max_total_calls minus the
\* total_calls consumed so far.
C16_DefaultIsRemainingAtCall ==
    (ppc = "loop" /\ rounds = 0 /\ defaulted) => (max_calls = remaining_calls)

\* C17: whenever a run acquires the governor and issues a remote request,
\* the TIMESTAMP file already holds the time at which the run was called,
\* and from the call of a run on (whether it fetches, returns without
\* fetching or aborts) the file holds that time until the next run is called.
C17_MarkerBeforeFetch ==
    /\ []((runs > 0) => (marker.written /\ marker.time = start_time))
    /\ [][(total_calls' # total_calls \/ requests' > requests) =>
             (marker.written /\ marker.time = start_time /\ marker' = marker)]_vars
    /\ [][(runs' = runs) => (marker' = marker)]_vars

\* C17 witness: a run has aborted on the quota after its request was made,
\* and an earlier run had left a marker of another time.
C17_Witness ==
    /\ runs = 2
    /\ ppc = "aborted"
    /\ requests >= 1
    /\ marker.written
    /\ marker.time = start_time
    /\ start_time = Stamp(26, 0)

(***************************************************************************)
(* Further properties of the governor (SpecGov)                            *)
(***************************************************************************)
\* C18: once a call has raised BlockfrostCallLimit, and as long as
\* reset_total_calls has not been called, the counter stays at or above the
\* quota, every call that reaches the quota test afterwards can only raise,
\* and no call passes the test.
C18_ExhaustionIsPermanent ==
    /\ []((raised >= 1 /\ resets = 0) => (total_calls >= max_total_calls))
    /\ [][(raised >= 1 /\ resets = 0 /\ resets' = 0) =>
             \A t \in Threads :
                 (gpc[t] = "check" /\ gpc'[t] # gpc[t]) =>
                     (gpc'[t] = "raised" /\ raised' = raised + 1)]_vars

\* C18 witness: after a granted call two further calls have raised, with no
\* reset.
C18_Witness ==
    /\ resets = 0
    /\ granted >= 1
    /\ raised >= 2

\* C19: no operation of the governor ever decreases total_calls.
C19_TotalCallsMonotonic == [][total_calls' >= total_calls]_vars

\* C20: a thread inside api() changes total_calls, num_limit_calls and
\* last_call only while it holds call_lock, and the decayed value it stores
\* is computed from the counter and the last_call of that moment, so that no
\* increment or decay of another thread is lost.
C20_MutationsUnderLock ==
    [][\A t \in Threads :
          (gpc'[t] # gpc[t]) =>
              /\ (\/ total_calls' # total_calls
                  \/ num_limit_calls' # num_limit_calls
                  \/ last_call' # last_call) => (call_lock = t)
              /\ (gpc[t] = "decay_store") =>
                    (num_limit_calls' = Decayed(num_limit_calls, gnow[t], last_call))]_vars

\* C21: a thread holds call_lock only while it increments the counters and
\* tests the budget: never while it sleeps in the backoff and never once it
\* has left _limiter for the remote call.
C21_LockOnlyForBookkeeping ==
    \A t \in Threads : (call_lock = t) => (gpc[t] \in {"locked", "check"})

\* The names of the partitions in S, in increasing partition order.
RECURSIVE NamesInOrder(_)
NamesInOrder(S) ==
    IF S = {} THEN << >>
    ELSE LET n == CHOOSE x \in S : \A y \in S : x <= y
         IN  << cache_name(n) >> \o NamesInOrder(S \ {n})

\* C22: whenever _get_cache returns, beside a flush at any of its steps, it
\* returns None (not an error) when no monthly partition file exists in the
\* cache path, and else the dataset of exactly the monthly partition files
\* in partition order; no temporary file is part of it.  (Stated for the
\* moments at which every partition file on disk is completely written.)
C22_ReaderSeesPartitions ==
    [][ ( /\ rpc # "returned" /\ rpc' = "returned"
          /\ \A n \in PartNames : store[n].exists => store[n].complete ) =>
          reader_df' = IF \A n \in PartNames : ~store[n].exists
                       THEN None
                       ELSE [kind |-> "dataset",
                             files |-> NamesInOrder({ n \in PartNames : store[n].exists })] ]_vars

C24_TickerAlwaysReturned ==
    [][ (apc = "name") => (apc' = "returned" /\ ticker'.kind = "value") ]_vars

\* The calendar month of a time, and the first index at which two adjacent
\* records differ in it (the length when there is none).
CalendarMonth(t) == year(t) * 100 + month(t)
FirstMonthChange(d) ==
    IF \E k \in 1..(Len(d) - 1) :
          CalendarMonth(d[k].block_time) # CalendarMonth(d[k + 1].block_time)
    THEN CHOOSE k \in 1..(Len(d) - 1) :
            /\ CalendarMonth(d[k].block_time) # CalendarMonth(d[k + 1].block_time)
            /\ \A j \in 1..(k - 1) :
                  CalendarMonth(d[j].block_time) = CalendarMonth(d[j + 1].block_time)
    ELSE Len(d)

\* C25: a flush of transaction records into an empty cache path persists
\* exactly the records before the first index at which two adjacent records
\* differ in calendar month (all of them when there is no such index) and
\* returns exactly the records from that index on, in their order.
C25_SplitAtFirstMonthChange ==
    (fpc = "done" /\ phase = "built" /\ ~frames) =>
        /\ returned = SubSeq(data, FirstMonthChange(data) + 1, Len(data))
        /\ Len(store[path].rows) = FirstMonthChange(data)
        /\ Range(store[path].rows) = Range(SubSeq(data, 1, FirstMonthChange(data)))
        /\ \A n \in PartNames \ {path} : ~store[n].exists

\* The partitions of a store that hold the frame of transaction h.
PartitionsOf(st, h) == { n \in PartNames : Record(h) \in Range(st[n].rows) }

\* C26: a flush of the per-transaction frames in cache_utxos writes only the
\* frames before the split index, the frames from the split index on are
\* written by a later flush only: no frame is ever in two partitions.
C26_FrameInOnePartition ==
    \A h \in 1..NumRec : Cardinality(PartitionsOf(store, h)) <= 1

\* C27: when _cache_txs runs in hash mode, the month partition exists and
\* the batch holds transactions whose hash is not stored yet, the flush
\* completes without error and the partition then holds its previous rows
\* plus exactly those new transactions.
C27_HashMergeCompletes ==
    [][ ( /\ phase' # phase
          /\ fpc' \in {"txs_done", "txs_raised"}
          /\ store[path'].exists
          /\ Len(UnseenHashes(Flushed(data'), store[path'].rows)) > 0 ) =>
        ( /\ fpc' = "txs_done"
          /\ Range(store'[path'].rows) =
                Range(store[path'].rows) \cup Range(UnseenHashes(Flushed(data'), store[path'].rows))
          /\ Len(store'[path'].rows) =
                Len(store[path'].rows) + Len(UnseenHashes(Flushed(data'), store[path'].rows)) ) ]_vars

\* The first result of a round that is an empty page (one past the round
\* when there is none), and the records of the results before index k.
FirstEmpty(res) ==
    IF \E i \in DOMAIN res : res[i].state = "ok" /\ Len(res[i].recs) = 0
    THEN CHOOSE i \in DOMAIN res :
            /\ res[i].state = "ok" /\ Len(res[i].recs) = 0
            /\ \A j \in 1..(i - 1) : ~(res[j].state = "ok" /\ Len(res[j].recs) = 0)
    ELSE Len(res) + 1
RECURSIVE PagesBefore(_, _)
PagesBefore(res, k) ==
    IF k <= 1 THEN << >> ELSE PagesBefore(res, k - 1) \o res[k - 1].recs

\* C28: when the results of a round are processed and no request up to the
\* first empty page has raised, the buffer grows by the pages before the
\* first empty page, in page order, full and short ones alike; done is set
\* exactly when one of these pages, or the empty page, is not a full page;
\* nothing of a page after the empty page is appended.
C28_EndOfDataInRound ==
    [][ ( /\ ppc = "fetching" /\ ppc' # "fetching"
          /\ \A i \in DOMAIN results :
                (i <= FirstEmpty(results)) => (results[i].state = "ok") ) =>
        ( /\ ppc' = "flushing"
          /\ transactions' = transactions \o PagesBefore(results, FirstEmpty(results))
          /\ done' = ( \/ done
                       \/ \E i \in DOMAIN results :
                            /\ i <= FirstEmpty(results)
                            /\ Len(results[i].recs) # PageSize ) ) ]_vars

\* A round of two pages over a listing of one record has been processed:
\* the short page is in the buffer, the empty page after it is not, and done
\* is set.
C28_Witness ==
    /\ ppc = "flushing"
    /\ rounds = 1 /\ page = 1 /\ call_batch = CpuCount
    /\ remote_len = 1
    /\ requests = CpuCount
    /\ done
    /\ transactions = RemotePage(1)

\* C29: when a page request of a round has raised, the processing of the
\* round ends in the error: the run is aborted, and it neither flushes nor
\* returns a call count.
C29_RaisedPageAborts ==
    [][ ( /\ ppc = "fetching" /\ ppc' # "fetching"
          /\ \E i \in DOMAIN results : results[i].state = "raised" ) =>
        ( ppc' = "aborted" /\ store' = store ) ]_vars

\* C30: the pages a run of cache_transactions has requested are, at every
\* moment, start_page, start_page + 1, ... without gap or repetition (so
\* every page of a round is greater than every page of the earlier rounds),
\* and a run that returns k has requested exactly k pages.
C30_PageCursor ==
    /\ \A i \in DOMAIN pages : pages[i] = start_page + i - 1
    /\ (ppc = "returned") => (Len(pages) = num_calls)

\* A run of two rounds whose second round was clipped to one page by
\* max_calls has returned 3 and requested start_page .. start_page + 2.
C30_Witness ==
    /\ ppc = "returned"
    /\ rounds = 2
    /\ call_batch < CpuCount
    /\ num_calls = 3
    /\ pages = << start_page, start_page + 1, start_page + 2 >>

(***************************************************************************)
(* C31. Result order under concurrency: whatever the order in which the    *)
(* page requests of a round complete, the round appends the records in     *)
(* ascending page number, so the buffer grows by the concatenation of the  *)
(* requested pages of the listing in request order.                        *)
(***************************************************************************)
RECURSIVE PagesInOrder(_, _)
PagesInOrder(p, n) ==
    IF n = 0 THEN << >> ELSE PagesInOrder(p, n - 1) \o RemotePage(p + n - 1)

C31_BufferInRequestOrder ==
    [][(ppc = "fetching" /\ ppc' = "flushing")
          => transactions' = transactions \o PagesInOrder(page, Len(results))]_vars

\* The second page of a round came back before the first, both full, and
\* the buffer holds the first page before the second.
C31_Witness ==
    /\ ppc = "flushing"
    /\ completed = << 2, 1 >>
    /\ Len(RemotePage(page + 1)) = PageSize
    /\ transactions = RemotePage(page) \o RemotePage(page + 1)

(***************************************************************************)
(* C32. Final flush: when cache_transactions has returned, every record    *)
(* the run appended to its buffer (the records of the pages it requested)  *)
(* was part of the rows of some flush of the run, in a round's flush loop  *)
(* or in the final flush; nothing was left in memory only.                 *)
(***************************************************************************)
C32_EverythingFlushed ==
    ppc = "returned"
       => handed = { r.hash : r \in UNION { Range(RemotePage(p)) : p \in Range(pages) } }

\* The run stopped because max_calls was reached, with the listing not at
\* its end, and everything it buffered lay in one month of one year.
C32_Witness ==
    /\ ppc = "returned"
    /\ ~done
    /\ num_calls >= max_calls
    /\ Cardinality(handed) >= PageSize
    /\ \A h \in handed : BlockTimes[h] \div TicksPerMonth = 0

(***************************************************************************)
(* C33. Termination: a run of cache_transactions that has begun comes to   *)
(* its return or to an exception; every round adds at least 1 to           *)
(* num_calls; and a flush of a non-empty buffer gives back a strictly      *)
(* shorter remainder, for the buffer of cache_transactions and for the     *)
(* buffer of cache_utxos, whose flush loop comes to its end as well.       *)
(***************************************************************************)
C33_Termination ==
    /\ (ppc \in {"loop", "fetching", "flushing"}) ~> (ppc \in {"returned", "aborted"})
    /\ [][(ppc = "loop" /\ ppc' = "fetching") => num_calls' >= num_calls + 1]_vars
    /\ [](Len(transactions) > 0 => Len(Remainder(transactions)) < Len(transactions))
    /\ [](Len(tx_utxos) > 0 => Len(Remainder(tx_utxos)) < Len(tx_utxos))

\* A run of cache_transactions that took two rounds and flushed inside a
\* round has returned.
C33_Witness ==
    /\ Len(ref_cache) = 0
    /\ ppc = "returned"
    /\ rounds >= 2
    /\ \E h \in handed : ~(\E r \in Range(transactions) : r.hash = h)

(***************************************************************************)
(* C34. Every call of the governor's acquire completes: it raises          *)
(* BlockfrostCallLimit or it is granted.  A call raises only when the      *)
(* quota test succeeds, and a call that went to sleep in backoff leaves    *)
(* the sleep once and is then granted.  No thread that raised inside the   *)
(* `with` block or that sleeps keeps another caller waiting forever.       *)
(***************************************************************************)
C34_AcquireCompletes ==
    /\ \A t \in Threads :
          (gpc[t] = "wait_lock") ~> (gpc[t] \in {"idle", "raised"})
    /\ [][\A t \in Threads :
             /\ (gpc[t] # "raised" /\ gpc'[t] = "raised")
                   => (gpc[t] = "check" /\ QuotaReached(total_calls))
             /\ (gpc[t] = "sleeping" /\ gpc'[t] # "sleeping") => gpc'[t] = "decay"
             /\ (gpc[t] = "decay" /\ gpc'[t] # "decay") => gpc'[t] = "decay_store"
             /\ (gpc[t] = "decay_store" /\ gpc'[t] # "decay_store")
                   => (gpc'[t] = "idle" /\ granted' = granted + 1)]_vars

\* One thread sleeps in backoff, holding call_lock, while another waits for
\* the lock.
C34_Witness ==
    \E t, u \in Threads :
       /\ gpc[t] = "sleeping"
       /\ call_lock = t
       /\ gpc[u] = "wait_lock"

(***************************************************************************)
(* C35. Burst-window arithmetic.  The window counter is never negative.    *)
(* A call that is granted while no other thread was inside api() from its  *)
(* entry to its return leaves the counter at max(0, w + 1 - 10 * d), with  *)
(* w the counter it found on entry and d the seconds between the time of   *)
(* the previous granted call and the time it read after the `with` block   *)
(* (after the backoff sleep, when it slept).  A call sleeps in backoff     *)
(* exactly when the counter is at least max_limit_calls and the quota is   *)
(* not reached.                                                            *)
(***************************************************************************)
C35_WindowArithmetic ==
    /\ [](num_limit_calls >= 0)
    /\ [][\A t \in Threads :
             ( /\ gpc[t] = "decay_store"
               /\ gpc'[t] = "idle"
               /\ seen.inside
               /\ seen.thread = t )
             => num_limit_calls' =
                   IF seen.w + 1 - 10 * (gnow[t] - last_call) >= 0
                   THEN seen.w + 1 - 10 * (gnow[t] - last_call)
                   ELSE 0]_vars
    /\ [][\A t \in Threads :
             (gpc[t] = "check" /\ gpc'[t] # "check")
             => (gpc'[t] = "sleeping"
                    <=> (num_limit_calls >= max_limit_calls
                           /\ total_calls < max_total_calls))]_vars

\* A call that ran alone, found a counter of at least 1 and slept in
\* backoff is about to store the decayed counter.
C35_Witness ==
    \E t \in Threads :
       /\ gpc[t] = "decay_store"
       /\ seen.inside
       /\ seen.thread = t
       /\ seen.w >= 1
       /\ gnow[t] - last_call >= backoff_time
       /\ gtmp[t] = 0

(***************************************************************************)
(* C36. cache_utxos returns 0 without a remote call when the pool has no   *)
(* cached transaction reference or none with a block_time later than the   *)
(* last cached UTXO; otherwise it issues min(max_calls, pending) get_utxo  *)
(* calls, the i-th of them for the i-th pending reference in cache order,  *)
(* and no other.                                                           *)
(***************************************************************************)
\* The cached references newer than the last row of the UTXO cache.
StillPending ==
    IF \A n \in PartNames : ~store[n].exists
    THEN ref_cache
    ELSE LET rows == get_cache(store)
         IN  SelectSeq(ref_cache,
                       LAMBDA r : r.block_time > rows[Len(rows)].block_time)

C36_UtxoCalls ==
    /\ [][(ppc # "fetching" /\ runs' = runs + 1) =>
             IF Len(ref_cache) = 0 \/ Len(StillPending) = 0
             THEN ppc' = "returned" /\ num_calls' = 0 /\ requests' = 0
                  /\ results' = << >>
             ELSE ppc' = "fetching" /\ requests' = 0
                  /\ Len(results') = Min(max_calls', Len(StillPending))]_vars
    /\ [](ppc = "fetching" =>
             /\ requests = Cardinality({ i \in DOMAIN results :
                                            results[i].state # "pending" })
             /\ \A i \in DOMAIN results :
                   results[i].state = "ok" => results[i].recs = << StillPending[i] >>)
    /\ [](ppc \in {"flushing", "returned", "aborted"} => requests = last_index)

\* A resumed run, cut by max_calls, has fetched the first max_calls of the
\* references that were pending and has returned.
C36_Witness ==
    /\ ppc = "returned"
    /\ max_calls >= 1
    /\ requests = max_calls
    /\ Len(u_cache) > max_calls
    /\ Len(u_cache) < Len(ref_cache)

(***************************************************************************)
(* C37. UTXO cache completeness across clipped runs: once a run of         *)
(* cache_utxos with max_calls >= 1 and without progress bar has returned   *)
(* 0, the UTXO cache holds the UTXOs of every reference of the pool's      *)
(* transaction cache, also of references that share a block_time.          *)
(***************************************************************************)
C37_UtxoCacheComplete ==
    ( /\ ppc = "returned"
      /\ max_calls >= 1
      /\ ~progress
      /\ num_calls = 0
      /\ \A n \in PartNames : store[n] # Partial )
    => \A i \in DOMAIN ref_cache :
          \E n \in PartNames :
             /\ store[n].exists
             /\ \E j \in DOMAIN store[n].rows : store[n].rows[j].hash = ref_cache[i].hash

(***************************************************************************)
(* C38. No gap when the remote grows during a round: the records in the    *)
(* buffer are consecutive records of the remote listing, each the direct   *)
(* successor of the one before it, also when the listing gained records    *)
(* while the page requests of the round were in flight.                    *)
(***************************************************************************)
C38_BufferContiguous ==
    \A i \in 1..(Len(transactions) - 1) :
       transactions[i + 1].hash = transactions[i].hash + 1

(***************************************************************************)
(* C39. Count-based resume of assets.cache_history: whatever runs have     *)
(* been made, history.arrow holds the first records of the remote history  *)
(* in remote order, every one of them exactly once.                        *)
(***************************************************************************)
C39_HistoryIsPrefix ==
    /\ Len(history.rows) <= remote_len
    /\ \A i \in DOMAIN history.rows : history.rows[i] = Record(i)

\* A second run found a partly cached page, fetched it again and wrote
\* more records behind the cached ones.
C39_Witness ==
    /\ ppc = "returned"
    /\ runs >= 2
    /\ cache_len % PageSize # 0
    /\ Len(history.rows) >= cache_len + PageSize

====
